---- MODULE Spec2Model ----
(***************************************************************************)
(* A model of the personal assistant: the retrieval index                  *)
(* (rag_system.py), the memory store and fact extractor                    *)
(* (memory_manager.py, memory_extractor.py), the tool catalogue            *)
(* (tool_system.py) and the orchestrator with its selector                 *)
(* (personal_assistant.py).                                                *)
(*                                                                         *)
(* Text.  A Python string is modelled as a sequence of words, a word as a  *)
(* non-empty sequence of one-character strings; the string is its words    *)
(* joined by single blanks (Flatten).  str.split(), str.lower(),           *)
(* str.strip(chars), len() and the substring test `x in s` are computed    *)
(* on that representation.                                                 *)
(*                                                                         *)
(* Numbers.  Scores and confidences are exact rationals [n, d] with d > 0. *)
(***************************************************************************)
EXTENDS Integers, Sequences, FiniteSets, TLC

VARIABLES
    documents,        \* DynamicRAGSystem.documents
    learned_queries,  \* DynamicRAGSystem.learned_queries
    today,            \* the wall clock, in days (datetime.now())
    last,             \* the last call made on the retrieval index and what it returned
    user_memories,    \* the rows of table user_memories
    memory_seq,       \* the AUTOINCREMENT counter of table user_memories
    mlast,            \* the last call made on the memory store, and the rows before it
    conversations,    \* the rows of table conversations
    clock,            \* the wall clock, in seconds (CURRENT_TIMESTAMP)
    performance_metrics,  \* DynamicPersonalAssistant.performance_metrics
    learning_enabled, \* DynamicPersonalAssistant.learning_enabled
    hash_seed,        \* the seed the running process salts str hashes with
    pq,               \* the last process_query call, what it saw and what came of it
    sel,              \* the last call of the selector and what it returned
    ref,              \* the last call of the memory refiner and what it returned
    evaluation_history,  \* ResponseEvaluator.evaluation_history
    ev,               \* the evaluate_responses calls made, and what the last returned
    routing_history,  \* IntelligentRouter.routing_history
    rt,               \* the route_query calls made, and what the last returned
    tg,               \* the last call of the tool generator and what it returned
    ra                \* the last call of ReActAgent.think and what it returned

ragVars == <<documents, learned_queries, today, last>>
memVars == <<user_memories, memory_seq, mlast>>
evalVars == <<evaluation_history, ev>>
routeVars == <<routing_history, rt>>
agentVars == <<tg, ra>>
utilVars == <<ref, evalVars, routeVars, agentVars>>
pqVars  == <<conversations, clock, performance_metrics, learning_enabled, hash_seed, pq, sel,
            utilVars>>
vars == <<documents, learned_queries, today, last, user_memories, memory_seq, mlast,
          conversations, clock, performance_metrics, learning_enabled, hash_seed, pq, sel, ref,
          evaluation_history, ev, routing_history, rt, tg, ra>>

----------------------------------------------------------------------------
(* Characters and words *)

Uppers == <<"A","B","C","D","E","F","G","H","I","J","K","L","M",
            "N","O","P","Q","R","S","T","U","V","W","X","Y","Z">>
Lowers == <<"a","b","c","d","e","f","g","h","i","j","k","l","m",
            "n","o","p","q","r","s","t","u","v","w","x","y","z">>
Digits == <<"0","1","2","3","4","5","6","7","8","9">>

IsIn(c, chars) == \E i \in DOMAIN chars : chars[i] = c

\* str.lower() on one character
LowerChar(c) ==
    IF IsIn(c, Uppers) THEN Lowers[CHOOSE i \in DOMAIN Uppers : Uppers[i] = c] ELSE c

LowerWord(w) == [i \in DOMAIN w |-> LowerChar(w[i])]

\* text.lower().split(): the words of the text, case-folded
LowerText(text) == [i \in DOMAIN text |-> LowerWord(text[i])]

\* len(text.split())
WordCount(text) == Len(text)

\* x in s, for a string x that holds no blank and the words of s
RECURSIVE IsPrefix(_, _)
IsPrefix(x, w) ==
    IF x = <<>> THEN TRUE
    ELSE IF w = <<>> THEN FALSE
    ELSE Head(x) = Head(w) /\ IsPrefix(Tail(x), Tail(w))

IsSubstr(x, w) == \E i \in 0..(Len(w) - Len(x)) : SubSeq(w, i + 1, i + Len(x)) = x

\* term in content: the content already case-folded; the empty string is in every string
TermInText(term, words) ==
    term = <<>> \/ \E j \in DOMAIN words : IsSubstr(term, words[j])

----------------------------------------------------------------------------
(* The words and texts the model draws its inputs from *)

w_cats     == <<"c","a","t","s">>
w_CatsQ    == <<"C","a","t","s","?">>
w_cat      == <<"c","a","t">>
w_dogs     == <<"d","o","g","s">>
w_bird     == <<"b","i","r","d">>
w_fish     == <<"f","i","s","h">>
w_marks    == <<"?","?","?","?">>
w_the      == <<"t","h","e">>
w_Question == <<"Q","u","e","s","t","i","o","n",":">>
w_Answer   == <<"A","n","s","w","e","r",":">>

\* n copies of the word w
Rep(w, n) == [i \in 1..n |-> w]

----------------------------------------------------------------------------
(* Rationals *)

Rat(n, d) == [n |-> n, d |-> d]
RatLess(a, b) == a.n * b.d < b.n * a.d
RatLeq(a, b)  == a.n * b.d <= b.n * a.d
RatEq(a, b)   == a.n * b.d = b.n * a.d

Max(a, b) == IF a >= b THEN a ELSE b
Min(a, b) == IF a <= b THEN a ELSE b

InSeq(x, seq) == \E i \in DOMAIN seq : seq[i] = x

\* the elements of a finite set, in some order
RECURSIVE SetToSeq(_)
SetToSeq(S) ==
    IF S = {} THEN <<>>
    ELSE LET x == CHOOSE y \in S : TRUE IN <<x>> \o SetToSeq(S \ {x})

\* the elements of a sequence of sequences, one after the other
RECURSIVE Concat(_)
Concat(texts) == IF texts = <<>> THEN <<>> ELSE Head(texts) \o Concat(Tail(texts))

----------------------------------------------------------------------------
(* rag_system.py: DynamicRAGSystem *)

\* config.top_k_retrieval
top_k_retrieval == 3

stop_words == { <<"t","h","e">>, <<"a">>, <<"a","n">>, <<"a","n","d">>, <<"o","r">>,
                <<"b","u","t">>, <<"i","n">>, <<"o","n">>, <<"a","t">>, <<"t","o">>,
                <<"f","o","r">> }

\* the characters of word.strip('.,!?;:"()[]{}')
StripChars == { ".", ",", "!", "?", ";", ":", "\"", "(", ")", "[", "]", "{", "}" }

RECURSIVE LStrip(_)
LStrip(w) == IF w # <<>> /\ Head(w) \in StripChars THEN LStrip(Tail(w)) ELSE w

RECURSIVE RStrip(_)
RStrip(w) ==
    IF w # <<>> /\ w[Len(w)] \in StripChars THEN RStrip(SubSeq(w, 1, Len(w) - 1)) ELSE w

Strip(w) == RStrip(LStrip(w))

\* [word.strip(...) for word in text.lower().split() if len(word) > 3 and word not in stop_words]
_extract_terms(text) ==
    LET words == LowerText(text)
        kept  == SelectSeq(words, LAMBDA w : Len(w) > 3 /\ w \notin stop_words)
    IN  [i \in DOMAIN kept |-> Strip(kept[i])]

\* add_document that appends the document twice
add_document_twice(docs, document) ==
    IF "content" \notin DOMAIN document THEN docs ELSE Append(Append(docs, document), document)

\* add_document: the documents after the call
add_document(docs, document) ==
    IF "content" \notin DOMAIN document THEN docs ELSE Append(docs, document)

\* for r_term in response_terms: if r_term not in list: list.append(r_term)
RECURSIVE AddAssociations(_, _)
AddAssociations(list, r_terms) ==
    IF r_terms = <<>> THEN list
    ELSE AddAssociations(
             IF InSeq(Head(r_terms), list) THEN list ELSE Append(list, Head(r_terms)),
             Tail(r_terms))

\* for q_term in query_terms: ...; dedup is the membership test of line 83
RECURSIVE LearnTerms(_, _, _, _)
LearnTerms(learned, q_terms, r_terms, dedup) ==
    IF q_terms = <<>> THEN learned
    ELSE LET t   == Head(q_terms)
             cur == IF t \in DOMAIN learned THEN learned[t] ELSE <<>>
             new == IF dedup THEN AddAssociations(cur, r_terms) ELSE cur \o r_terms
         IN  LearnTerms((t :> new) @@ learned, Tail(q_terms), r_terms, dedup)

\* _learn_query_pattern without the membership test of line 83
learn_query_pattern_nodedup(learned, query, response) ==
    LearnTerms(learned, _extract_terms(query), _extract_terms(response), FALSE)

\* _learn_query_pattern: the association mapping after the call
_learn_query_pattern(learned, query, response) ==
    LearnTerms(learned, _extract_terms(query), _extract_terms(response), TRUE)

\* f"Question: {query}\nAnswer: {response}"
LearnedContent(query, response) == <<w_Question>> \o query \o <<w_Answer>> \o response

\* the document learn_from_interaction builds
LearnedDocument(query, response, source, now) ==
    [content |-> LearnedContent(query, response),
     source |-> "learned_from_" \o source,
     learned_date |-> now,
     confidence |-> 7]

\* learn_from_interaction with the test `>= 10` for `> 10`
learn_from_interaction_from_ten(docs, learned, query, response, source, now) ==
    IF WordCount(response) > 9
    THEN [documents |-> add_document(docs, LearnedDocument(query, response, source, now)),
          learned_queries |-> _learn_query_pattern(learned, query, response)]
    ELSE [documents |-> docs, learned_queries |-> learned]

\* learn_from_interaction: the documents and the association mapping after the call
learn_from_interaction(docs, learned, query, response, source, now) ==
    IF WordCount(response) > 10
    THEN [documents |-> add_document(docs, LearnedDocument(query, response, source, now)),
          learned_queries |-> _learn_query_pattern(learned, query, response)]
    ELSE [documents |-> docs, learned_queries |-> learned]

\* _enhance_query_with_learning: query + " " + " ".join(enhanced_terms)
_enhance_query_with_learning(learned, query) ==
    LET query_terms == _extract_terms(query)
        base  == { query_terms[i] : i \in DOMAIN query_terms }
        extra == UNION { { learned[t][j] : j \in 1..Min(3, Len(learned[t])) } :
                         t \in { x \in base : x \in DOMAIN learned } }
    IN  query \o SetToSeq({ t \in base \cup extra : t # <<>> })

\* _calculate_dynamic_score without the floor of 0.5 under the recency boost
calculate_dynamic_score_no_floor(document, query_terms, now) ==
    IF query_terms = <<>> THEN Rat(0, 1)
    ELSE LET content == LowerText(IF "content" \in DOMAIN document
                                  THEN document.content ELSE <<>>)
             term_matches == Cardinality({ i \in DOMAIN query_terms :
                                             TermInText(query_terms[i], content) })
             recency_boost == IF "learned_date" \in DOMAIN document
                              THEN 30 - (now - document.learned_date)
                              ELSE 30
             source_confidence == IF "confidence" \in DOMAIN document
                                  THEN document.confidence ELSE 5
         IN  Rat(term_matches * recency_boost * source_confidence,
                 Len(query_terms) * 30 * 10)

\* _calculate_dynamic_score: term_score * recency_boost * source_confidence,
\* the confidence in tenths, the recency boost in thirtieths
_calculate_dynamic_score(document, query_terms, now) ==
    IF query_terms = <<>> THEN Rat(0, 1)
    ELSE LET content == LowerText(IF "content" \in DOMAIN document
                                  THEN document.content ELSE <<>>)
             term_matches == Cardinality({ i \in DOMAIN query_terms :
                                             TermInText(query_terms[i], content) })
             recency_boost == IF "learned_date" \in DOMAIN document
                              THEN Max(15, 30 - (now - document.learned_date))
                              ELSE 30
             source_confidence == IF "confidence" \in DOMAIN document
                                  THEN document.confidence ELSE 5
         IN  Rat(term_matches * recency_boost * source_confidence,
                 Len(query_terms) * 30 * 10)

\* results.sort(key=relevance_score, reverse=True): stable, descending
RECURSIVE InsertByScore(_, _)
InsertByScore(sorted, x) ==
    IF sorted = <<>> THEN <<x>>
    ELSE IF RatLess(Head(sorted).relevance_score, x.relevance_score)
         THEN <<x>> \o sorted
         ELSE <<Head(sorted)>> \o InsertByScore(Tail(sorted), x)

RECURSIVE SortByScore(_, _)
SortByScore(sorted, rest) ==
    IF rest = <<>> THEN sorted
    ELSE SortByScore(InsertByScore(sorted, Head(rest)), Tail(rest))

\* the scored copies of the documents, in document order
Scored(docs, learned, query, now) ==
    LET query_terms == _extract_terms(_enhance_query_with_learning(learned, query))
    IN  [i \in DOMAIN docs |->
            ("relevance_score" :> _calculate_dynamic_score(docs[i], query_terms, now))
            @@ docs[i]]

\* search without its sort: the first k documents of a score above 0, in the
\* order of the index
search_unsorted(docs, learned, query, k, now) ==
    LET all == Scored(docs, learned, query, now)
        results == SelectSeq(all, LAMBDA x : x.relevance_score.n > 0)
    IN  SubSeq(results, 1, Min(k, Len(results)))

\* search: the k best documents that score above 0
search(docs, learned, query, k, now) ==
    LET all == Scored(docs, learned, query, now)
        results == SelectSeq(all, LAMBDA x : x.relevance_score.n > 0)
        sorted == SortByScore(<<>>, results)
    IN  SubSeq(sorted, 1, Min(k, Len(sorted)))

----------------------------------------------------------------------------
(* memory_manager.py: MemoryManager *)

\* a row of table user_memories (its timestamp column, which nothing reads, left out)
MemoryRow(id, user_id, memory_key, memory_value) ==
    [id |-> id, user_id |-> user_id, memory_key |-> memory_key,
     memory_value |-> memory_value]

\* store_memory with a plain INSERT into a table without the UNIQUE constraint
store_memory_insert_only(rows, seq, user_id, memory_key, memory_value) ==
    [rows |-> rows \cup { MemoryRow(seq + 1, user_id, memory_key, memory_value) },
     seq  |-> seq + 1]

\* store_memory: INSERT OR REPLACE under UNIQUE(user_id, memory_key) deletes the
\* row in conflict and inserts the new one under a fresh id
store_memory(rows, seq, user_id, memory_key, memory_value) ==
    [rows |-> { r \in rows : ~ (r.user_id = user_id /\ r.memory_key = memory_key) }
                  \cup { MemoryRow(seq + 1, user_id, memory_key, memory_value) },
     seq  |-> seq + 1]

\* get_user_memories: the mapping built from the rows of the user, a later row
\* of the same key replacing an earlier one
get_user_memories(rows, user_id) ==
    LET mine == { r \in rows : r.user_id = user_id }
    IN  [k \in { r.memory_key : r \in mine } |->
            (CHOOSE r \in mine :
                /\ r.memory_key = k
                /\ \A o \in mine : o.memory_key = k => o.id <= r.id).memory_value]

----------------------------------------------------------------------------
(* personal_assistant.py: add_knowledge *)

\* add_knowledge: the document handed to add_document
KnowledgeDocument(content, source, now) ==
    [content |-> content, source |-> source, added_date |-> now, confidence |-> 8]

----------------------------------------------------------------------------
(* Strings as characters, and the regular expressions of the re module *)

\* the string of a text: its words joined by single blanks
RECURSIVE Flatten(_)
Flatten(text) ==
    IF text = <<>> THEN <<>>
    ELSE IF Len(text) = 1 THEN text[1]
    ELSE text[1] \o <<" ">> \o Flatten(Tail(text))

\* x in s, for strings as characters
Contains(s, x) == IsSubstr(x, s)

\* any(phrase in s for phrase in phrases)
ContainsAny(s, phrases) == \E x \in phrases : Contains(s, x)

DigitSet == { Digits[i] : i \in DOMAIN Digits }
AlphaSet == { Lowers[i] : i \in DOMAIN Lowers } \cup { Uppers[i] : i \in DOMAIN Uppers }
WordSet  == AlphaSet \cup DigitSet \cup { "_" }
SpaceSet == { " " }
OpSet    == { "+", "-", "*", "/" }

\* the upper limit of an unbounded repetition (+, *)
Many == 1000

\* one item of a pattern: between lo and hi characters of the class cls, part of
\* capture group g (0: of none)
Item(cls, lo, hi, g) == [kind |-> "run", cls |-> cls, lo |-> lo, hi |-> hi, g |-> g, lits |-> <<>>]

\* (?:a|b|c): the first of the literal strings lits, in their order, after which
\* the rest of the pattern matches
Choice(lits) == [kind |-> "choice", cls |-> {}, lo |-> 0, hi |-> 0, g |-> 0, lits |-> lits]

\* the place where the character before is of the class cls; it takes no character
Behind(cls, g) == [kind |-> "behind", cls |-> cls, lo |-> 0, hi |-> 0, g |-> g, lits |-> <<>>]

\* a literal string as a pattern
Lit(str) == << Choice(<< str >>) >>

\* the number of characters of s from position pos on that are in cls, at most hi
RECURSIVE Run(_, _, _, _)
Run(s, pos, cls, hi) ==
    IF hi = 0 \/ pos > Len(s) \/ s[pos] \notin cls THEN 0
    ELSE 1 + Run(s, pos + 1, cls, hi - 1)

\* s.startswith(x, pos - 1)
IsPrefixAt(x, s, pos) ==
    /\ pos + Len(x) - 1 <= Len(s)
    /\ \A i \in DOMAIN x : s[pos + i - 1] = x[i]

NoMatch == [ok |-> FALSE, lens |-> <<>>]

RECURSIVE MatchAt(_, _, _)
RECURSIVE TryRun(_, _, _, _)
RECURSIVE TryChoice(_, _, _, _)

\* a repetition takes n characters, or the most below n that let the rest match
TryRun(pat, s, pos, n) ==
    IF n < Head(pat).lo THEN NoMatch
    ELSE LET rest == MatchAt(Tail(pat), s, pos + n)
         IN  IF rest.ok THEN [ok |-> TRUE, lens |-> <<n>> \o rest.lens]
             ELSE TryRun(pat, s, pos, n - 1)

\* the i-th alternative of a choice matches, or the first after it that does
TryChoice(pat, s, pos, i) ==
    IF i > Len(Head(pat).lits) THEN NoMatch
    ELSE LET lit  == Head(pat).lits[i]
             rest == IF IsPrefixAt(lit, s, pos) THEN MatchAt(Tail(pat), s, pos + Len(lit))
                     ELSE NoMatch
         IN  IF rest.ok THEN [ok |-> TRUE, lens |-> <<Len(lit)>> \o rest.lens]
             ELSE TryChoice(pat, s, pos, i + 1)

\* the match of the pattern at position pos that a backtracking matcher finds
\* first, every repetition greedy: whether there is one, and the length each
\* item took
MatchAt(pat, s, pos) ==
    IF pat = <<>> THEN [ok |-> TRUE, lens |-> <<>>]
    ELSE LET it == Head(pat)
         IN  CASE it.kind = "run" -> TryRun(pat, s, pos, Run(s, pos, it.cls, it.hi))
               [] it.kind = "choice" -> TryChoice(pat, s, pos, 1)
               [] it.kind = "behind" ->
                   LET rest == IF pos > 1 /\ s[pos - 1] \in it.cls
                               THEN MatchAt(Tail(pat), s, pos) ELSE NoMatch
                   IN  IF rest.ok THEN [ok |-> TRUE, lens |-> <<0>> \o rest.lens]
                       ELSE NoMatch

NoSearchMatch == [ok |-> FALSE, start |-> 0, alt |-> 0, lens |-> <<>>]

\* the first of the alternatives, from the a-th on, that matches at position pos
RECURSIVE AltAt(_, _, _, _)
AltAt(alts, s, pos, a) ==
    IF a > Len(alts) THEN NoSearchMatch
    ELSE LET m == MatchAt(alts[a], s, pos)
         IN  IF m.ok THEN [ok |-> TRUE, start |-> pos, alt |-> a, lens |-> m.lens]
             ELSE AltAt(alts, s, pos, a + 1)

\* the match at the first position from pos on where an alternative matches
SearchFrom(alts, s, pos) ==
    LET places == { p \in pos .. Len(s) + 1 : AltAt(alts, s, p, 1).ok }
    IN  IF places = {} THEN NoSearchMatch
        ELSE AltAt(alts, s, CHOOSE p \in places : \A r \in places : p <= r, 1)

\* re.search(pattern, s) for a pattern given as its alternatives, in the order
\* the matcher tries them: the leftmost match, and at that place the first
\* alternative that matches
ReSearch(alts, s) == SearchFrom(alts, s, 1)

ReMatches(alts, s) == ReSearch(alts, s).ok

RECURSIVE SumTo(_, _)
SumTo(lens, n) == IF n = 0 THEN 0 ELSE lens[n] + SumTo(lens, n - 1)

\* match.group(g)
Group(alts, s, m, g) ==
    LET pat   == alts[m.alt]
        items == { i \in DOMAIN pat : pat[i].g = g }
        first == CHOOSE i \in items : \A j \in items : i <= j
        final == CHOOSE i \in items : \A j \in items : j <= i
    IN  SubSeq(s, m.start + SumTo(m.lens, first - 1),
                  m.start + SumTo(m.lens, final) - 1)

\* str.split() of a string given as characters
RECURSIVE SplitWords(_, _)
SplitWords(s, cur) ==
    IF s = <<>> THEN (IF cur = <<>> THEN <<>> ELSE <<cur>>)
    ELSE IF Head(s) = " "
         THEN (IF cur = <<>> THEN <<>> ELSE <<cur>>) \o SplitWords(Tail(s), <<>>)
         ELSE SplitWords(Tail(s), Append(cur, Head(s)))

Split(s) == SplitWords(s, <<>>)

----------------------------------------------------------------------------
(* memory_extractor.py: MemoryExtractor *)

\* (\w+) as capture group 1
WordGroup == <<Item(WordSet, 1, Many, 1)>>

\* self.patterns: each pattern as its alternatives, with its category
patterns ==
    << [alts |-> << Lit(<<"m","y"," ","n","a","m","e"," ","i","s"," ">>) \o WordGroup, Lit(<<"m","y"," ","n","a","m","e","'","s"," ">>) \o WordGroup >>,
        key  |-> "name"],
       [alts |-> << Lit(<<"i"," ","a","m"," ">>) \o WordGroup \o Lit(<<" ","y","e","a","r","s"," ","o","l","d">>) >>,
        key  |-> "age"],
       [alts |-> << Lit(<<"i"," ","a","m"," ","f","r","o","m"," ">>) \o WordGroup >>,
        key  |-> "location"],
       [alts |-> << Lit(<<"m","y"," ","f","a","v","o","r","i","t","e"," ","s","u","b","j","e","c","t"," ","i","s"," ">>) \o WordGroup,
                    Lit(<<"m","y"," ","f","a","v","o","r","i","t","e"," ","c","o","l","o","r"," ","i","s"," ">>) \o WordGroup,
                    Lit(<<"m","y"," ","f","a","v","o","r","i","t","e"," ","f","o","o","d"," ","i","s"," ">>) \o WordGroup,
                    Lit(<<"m","y"," ","f","a","v","o","r","i","t","e"," ","m","o","v","i","e"," ","i","s"," ">>) \o WordGroup >>,
        key  |-> "favorite"],
       [alts |-> << Lit(<<"i"," ","l","i","k","e"," ">>) \o WordGroup, Lit(<<"i"," ","l","o","v","e"," ">>) \o WordGroup,
                    Lit(<<"i"," ","e","n","j","o","y"," ">>) \o WordGroup >>,
        key  |-> "likes"],
       [alts |-> << Lit(<<"i"," ","h","a","t","e"," ">>) \o WordGroup, Lit(<<"i"," ","d","i","s","l","i","k","e"," ">>) \o WordGroup >>,
        key  |-> "dislikes"],
       [alts |-> << Lit(<<"i"," ","w","o","r","k"," ","a","s"," ">>) \o WordGroup >>,
        key  |-> "occupation"] >>

\* the characters hash() tells apart
HashChars == Lowers \o Uppers \o Digits \o <<" ", "_", "'", "?", ":", ".", "+", "-", "*", "/">>

Ord(c) == IF IsIn(c, HashChars) THEN CHOOSE i \in DOMAIN HashChars : HashChars[i] = c ELSE 0

\* hash(s) % 1000 for a str s: Python salts the hash of a str with a seed it draws
\* when the process starts (PYTHONHASHSEED), so the value is a function of the
\* seed and the string; within one process equal strings have equal hashes
RECURSIVE HashFrom(_, _)
HashFrom(h, s) ==
    IF s = <<>> THEN h ELSE HashFrom((h * 31 + Ord(Head(s))) % 1000, Tail(s))

StrHash(seed, s) == HashFrom(7 + 13 * seed, s)

\* s.split(sep)
RECURSIVE SplitOn(_, _, _)
SplitOn(s, sep, cur) ==
    IF s = <<>> THEN <<cur>>
    ELSE IF IsPrefix(sep, s)
         THEN <<cur>> \o SplitOn(SubSeq(s, Len(sep) + 1, Len(s)), sep, <<>>)
         ELSE SplitOn(Tail(s), sep, Append(cur, Head(s)))

\* s.replace(x, "")
RECURSIVE Remove(_, _)
Remove(s, x) ==
    IF s = <<>> THEN <<>>
    ELSE IF IsPrefix(x, s) THEN Remove(SubSeq(s, Len(x) + 1, Len(s)), x)
    ELSE <<Head(s)>> \o Remove(Tail(s), x)

\* s.strip()
RECURSIVE LTrim(_)
LTrim(s) == IF s # <<>> /\ Head(s) = " " THEN LTrim(Tail(s)) ELSE s

RECURSIVE RTrim(_)
RTrim(s) == IF s # <<>> /\ s[Len(s)] = " " THEN RTrim(SubSeq(s, 1, Len(s) - 1)) ELSE s

Trim(s) == RTrim(LTrim(s))

NotMemory == [is_memory |-> FALSE]

\* for pattern, key in self.patterns: the fact of the first of the remaining
\* patterns that matches
RECURSIVE ExtractFrom(_, _, _)
ExtractFrom(rest, query_lower, seed) ==
    IF rest = <<>> THEN NotMemory
    ELSE LET Fact(key, value) ==
                 [is_memory |-> TRUE,
                  key   |-> key \o "_" \o ToString(StrHash(seed, value)),
                  value |-> Split(value),
                  type  |-> key]
             Found(pattern, match) ==
                 IF match.ok
                 THEN Fact(pattern.key, Trim(Group(pattern.alts, query_lower, match, 1)))
                 ELSE ExtractFrom(Tail(rest), query_lower, seed)
         IN  Found(Head(rest), ReSearch(Head(rest).alts, query_lower))

memory_indicators == { <<"r","e","m","e","m","b","e","r"," ","t","h","a","t">>, <<"d","o","n","'","t"," ","f","o","r","g","e","t">>, <<"m","y">> }

\* the second half of extract: a statement "<key> is <value>"
ExtractCustom(query_lower, seed) ==
    IF ContainsAny(query_lower, memory_indicators) /\ Contains(query_lower, <<"i","s">>)
    THEN LET parts == SplitOn(query_lower, <<" ","i","s"," ">>, <<>>)
         IN  IF Len(parts) = 2
             THEN LET key_part   == Trim(Remove(Remove(parts[1], <<"m","y"," ">>), <<"r","e","m","e","m","b","e","r"," ","t","h","a","t"," ">>))
                      value_part == Trim(parts[2])
                  IN  IF key_part # <<>> /\ value_part # <<>>
                      THEN [is_memory |-> TRUE,
                            key   |-> "custom_" \o ToString(StrHash(seed, key_part)),
                            value |-> Split(key_part \o <<":"," ">> \o value_part),
                            type  |-> "custom"]
                      ELSE NotMemory
             ELSE NotMemory
    ELSE NotMemory

\* extract(query), in a process whose hash seed is seed
extract(query, seed) ==
    LET query_lower == Flatten(LowerText(query))
        Fact(named) == IF named.is_memory THEN named ELSE ExtractCustom(query_lower, seed)
    IN  Fact(ExtractFrom(patterns, query_lower, seed))

----------------------------------------------------------------------------
(* Numbers and their strings *)

DigitValue(c) == (CHOOSE i \in DOMAIN Digits : Digits[i] = c) - 1

\* int(s) for a string of digits
RECURSIVE CharsToInt(_)
CharsToInt(s) ==
    IF s = <<>> THEN 0 ELSE CharsToInt(SubSeq(s, 1, Len(s) - 1)) * 10 + DigitValue(s[Len(s)])

\* str(n) for an int n
RECURSIVE NatToChars(_)
NatToChars(n) ==
    IF n < 10 THEN <<Digits[n + 1]>> ELSE NatToChars(n \div 10) \o <<Digits[(n % 10) + 1]>>

IntToChars(n) == IF n < 0 THEN <<"-">> \o NatToChars(0 - n) ELSE NatToChars(n)

RECURSIVE Pow10(_)
Pow10(k) == IF k = 0 THEN 1 ELSE 10 * Pow10(k - 1)

\* the digits after the point of rem / d, until the division ends
RECURSIVE Fraction(_, _, _)
Fraction(rem, d, left) ==
    IF rem = 0 \/ left = 0 THEN <<>>
    ELSE <<Digits[((rem * 10) \div d) + 1]>> \o Fraction((rem * 10) % d, d, left - 1)

\* str(x) for a float x = n / d (d > 0) whose decimal expansion ends within the
\* 16 digits repr() prints
FloatToChars(n, d) ==
    LET a == IF n < 0 THEN 0 - n ELSE n
        frac == Fraction(a % d, d, 16)
    IN  (IF n < 0 THEN <<"-">> ELSE <<>>) \o NatToChars(a \div d) \o <<".">>
            \o (IF frac = <<>> THEN <<"0">> ELSE frac)

\* a literal \d+\.?\d* as Python reads it: an int, a float, or a syntax error
\* (an int literal with a leading zero that is not zero)
Literal(s) ==
    LET dots == { i \in DOMAIN s : s[i] = "." }
    IN  IF dots = {}
        THEN [ok |-> ~ (Len(s) > 1 /\ s[1] = "0" /\ CharsToInt(s) # 0),
              float |-> FALSE, n |-> CharsToInt(s), d |-> 1]
        ELSE LET dot  == CHOOSE i \in dots : TRUE
                 frac == SubSeq(s, dot + 1, Len(s))
             IN  [ok |-> TRUE, float |-> TRUE,
                  n |-> CharsToInt(SubSeq(s, 1, dot - 1)) * Pow10(Len(frac)) + CharsToInt(frac),
                  d |-> Pow10(Len(frac))]

----------------------------------------------------------------------------
(* tool_system.py *)

n_get_weather == <<"g","e","t","_","w","e","a","t","h","e","r">>
n_calculator  == <<"c","a","l","c","u","l","a","t","o","r">>
n_get_time    == <<"g","e","t","_","t","i","m","e">>
n_web_search  == <<"w","e","b","_","s","e","a","r","c","h">>

\* ToolManager.list_tools(): the tools in the order register_tools registers them
list_tools == << n_get_weather, n_calculator, n_get_time, n_web_search >>

\* params.get(name, "")
Param(params, name) == IF name \in DOMAIN params THEN params[name] ELSE <<>>

\* WeatherTool.execute
WeatherTool(params) ==
    LET location == Param(params, "location")
    IN  IF location = <<>> THEN [error |-> "Location parameter is required"]
        ELSE [location |-> location, temperature |-> <<"2","2","°","C">>, conditions |-> "Sunny",
              humidity |-> "65%", wind_speed |-> "15 km/h", source |-> "weather_api"]

\* eval of "<a> <op> <b>" with a and b of the form \d+\.?\d* : the value as the
\* fraction n / d, a float when an operand is one or the operator is /
Eval(a, op, b) ==
    LET Value(x, y) ==
            IF ~ x.ok \/ ~ y.ok THEN [error |-> "Calculation failed: invalid syntax"]
            ELSE IF op = "/" /\ y.n = 0 THEN [error |-> "Calculation failed: division by zero"]
            ELSE [float |-> x.float \/ y.float \/ op = "/",
                  n |-> CASE op = "+" -> x.n * y.d + y.n * x.d
                          [] op = "-" -> x.n * y.d - y.n * x.d
                          [] op = "*" -> x.n * y.n
                          [] op = "/" -> x.n * y.d,
                  d |-> IF op = "/" THEN x.d * y.n ELSE x.d * y.d]
    IN  Value(Literal(a), Literal(b))

\* CalculatorTool.execute, for the expressions _extract_tool_params builds
CalculatorTool(params) ==
    LET expression == Param(params, "expression")
        Result(value) ==
            IF "error" \in DOMAIN value THEN value
            ELSE [expression |-> expression, result |-> value, type |-> "calculation"]
        Evaluated(parts) == Result(Eval(parts[1], parts[2][1], parts[3]))
    IN  IF expression = <<>> THEN [error |-> "Expression parameter is required"]
        ELSE Evaluated(Split(expression))

\* now.strftime("%Y-%m-%d %H:%M:%S"), the clock counting days
strftime(now) == <<"d","a","y">> \o IntToChars(now) \o <<" ","0","0",":","0","0",":","0","0">>

\* TimeTool.execute
TimeTool(params, now) ==
    [current_time |-> strftime(now), timezone |-> "local", timestamp |-> now]

\* WebSearchTool.execute
WebSearchTool(params) ==
    LET query == Param(params, "query")
        max_results == IF "max_results" \in DOMAIN params THEN params.max_results ELSE 3
        results ==
            << [title   |-> <<"R","e","s","u","l","t"," ","1"," ","f","o","r"," ">> \o query,
                snippet |-> <<"T","h","i","s"," ","i","s"," ","i","n","f","o","r","m","a","t","i","o","n"," ","a","b","o","u","t"," ">> \o query \o <<" ","f","r","o","m"," ","t","h","e"," ","w","e","b",".">>,
                url     |-> "https://example.com/1"],
               [title   |-> <<"R","e","s","u","l","t"," ","2"," ","f","o","r"," ">> \o query,
                snippet |-> <<"M","o","r","e"," ","d","e","t","a","i","l","s"," ","a","b","o","u","t"," ">> \o query \o <<" ","f","o","u","n","d"," ","o","n","l","i","n","e",".">>,
                url     |-> "https://example.com/2"] >>
    IN  IF query = <<>> THEN [error |-> "Query parameter is required"]
        ELSE [query |-> query, results |-> SubSeq(results, 1, Min(max_results, 2)),
              source |-> "web_search_api"]

\* ToolManager.execute_tool; fails: the tool raises
execute_tool(tool_name, params, now, fails) ==
    IF ~ InSeq(tool_name, list_tools) THEN [error |-> "Tool not found"]
    ELSE IF fails THEN [error |-> "Tool execution failed"]
    ELSE CASE tool_name = n_get_weather -> WeatherTool(params)
           [] tool_name = n_calculator  -> CalculatorTool(params)
           [] tool_name = n_get_time    -> TimeTool(params, now)
           [] tool_name = n_web_search  -> WebSearchTool(params)

----------------------------------------------------------------------------
(* personal_assistant.py: the tool generator *)

AnySet == WordSet \cup SpaceSet \cup OpSet \cup StripChars \cup { "'", "%", "=", "<", ">", "&", "#", "@" }

Digits1(g) == << Item(DigitSet, 1, Many, g) >>                       \* (\d+)
Number(g)  == << Item(DigitSet, 1, Many, g), Item({ "." }, 0, 1, g),
                 Item(DigitSet, 0, Many, g) >>                         \* (\d+\.?\d*)
Spaces0    == << Item(SpaceSet, 0, Many, 0) >>                        \* \s*
Spaces1    == << Item(SpaceSet, 1, Many, 0) >>                        \* \s+
Letters(g) == << Item(AlphaSet, 1, Many, g) >>                        \* ([a-zA-Z]+)
\* ([a-zA-Z]+(?:\s+[a-zA-Z]+)*): letters and blanks from a letter to a letter
LetterWords(g) == << Item(AlphaSet, 1, 1, g), Item(AlphaSet \cup SpaceSet, 0, Many, g),
                     Behind(AlphaSet, g) >>
InAtFor    == << Choice(<< <<" ","i","n">>, <<" ","a","t">>, <<" ","f","o","r">>, <<>> >>) >>       \* (?: in| at| for)?

\* tool_patterns of _is_tool_relevant: the patterns and the keywords of a tool
tool_patterns(tool_name) ==
    CASE tool_name = n_calculator ->
           [patterns |-> << Number(1) \o Spaces0 \o << Item(OpSet, 1, 1, 1) >> \o Spaces0 \o Number(1),
                            Lit(<<"c","a","l","c","u","l","a","t","e">>),
                            Lit(<<"w","h","a","t"," ","i","s"," ">>) \o Digits1(0),
                            Digits1(0) \o Lit(<<" ","p","l","u","s"," ">>) \o Digits1(0),
                            Digits1(0) \o Lit(<<" ","m","i","n","u","s"," ">>) \o Digits1(0),
                            Digits1(0) \o Lit(<<" ","t","i","m","e","s"," ">>) \o Digits1(0),
                            Digits1(0) \o Lit(<<" ","d","i","v","i","d","e","d"," ","b","y"," ">>) \o Digits1(0),
                            Lit(<<"s","u","m"," ","o","f">>),
                            Lit(<<"p","r","o","d","u","c","t"," ","o","f">>),
                            Lit(<<"d","i","f","f","e","r","e","n","c","e"," ","b","e","t","w","e","e","n">>) >>,
            keywords |-> { <<"c","a","l","c","u","l","a","t","e">>, <<"m","a","t","h">>, <<"a","d","d">>, <<"s","u","b","t","r","a","c","t">>, <<"m","u","l","t","i","p","l","y">>,
                           <<"d","i","v","i","d","e">>, <<"s","u","m">>, <<"p","r","o","d","u","c","t">> }]
      [] tool_name = n_get_weather ->
           [patterns |-> << Lit(<<"w","e","a","t","h","e","r">>) \o InAtFor \o Spaces1 \o Letters(1),
                            Lit(<<"t","e","m","p","e","r","a","t","u","r","e">>) \o InAtFor \o Spaces1 \o Letters(1),
                            Lit(<<"f","o","r","e","c","a","s","t">>) \o InAtFor \o Spaces1 \o Letters(1),
                            Lit(<<"h","o","w"," ","i","s"," ","t","h","e"," ","w","e","a","t","h","e","r">>),
                            Lit(<<"h","o","w","'","s"," ","t","h","e"," ","w","e","a","t","h","e","r">>) >>,
            keywords |-> { <<"w","e","a","t","h","e","r">>, <<"t","e","m","p","e","r","a","t","u","r","e">>, <<"f","o","r","e","c","a","s","t">>, <<"r","a","i","n">>, <<"s","u","n","n","y">>,
                           <<"h","o","t">>, <<"c","o","l","d">> }]
      [] tool_name = n_get_time ->
           [patterns |-> << Lit(<<"w","h","a","t"," ","i","s"," ","t","h","e"," ","t","i","m","e">>), Lit(<<"w","h","a","t","'","s"," ","t","h","e"," ","t","i","m","e">>),
                            Lit(<<"c","u","r","r","e","n","t"," ","t","i","m","e">>), Lit(<<"w","h","a","t"," ","t","i","m","e"," ","i","s"," ","i","t">>),
                            Lit(<<"t","i","m","e"," ","n","o","w">>), Lit(<<"d","a","t","e"," ","a","n","d"," ","t","i","m","e">>) >>,
            keywords |-> { <<"t","i","m","e">>, <<"c","u","r","r","e","n","t"," ","t","i","m","e">>, <<"w","h","a","t"," ","t","i","m","e">>, <<"c","l","o","c","k">>, <<"d","a","t","e">> }]
      [] tool_name = n_web_search ->
           [patterns |-> << Lit(<<"s","e","a","r","c","h"," ","f","o","r">>), Lit(<<"f","i","n","d"," ","i","n","f","o","r","m","a","t","i","o","n"," ","a","b","o","u","t">>),
                            Lit(<<"l","o","o","k"," ","u","p">>), Lit(<<"g","o","o","g","l","e">>) >>,
            keywords |-> { <<"s","e","a","r","c","h">>, <<"f","i","n","d">>, <<"l","o","o","k"," ","u","p">>, <<"i","n","f","o","r","m","a","t","i","o","n"," ","a","b","o","u","t">> }]

\* " ".join([conv['message'] + " " + conv['response'] for conv in history[-2:]])
RecentText(history) ==
    LET recent == SubSeq(history, Max(1, Len(history) - 1), Len(history))
    IN  IF recent = <<>> THEN <<>>
        ELSE IF Len(recent) = 1 THEN recent[1].message \o recent[1].response
        ELSE recent[1].message \o recent[1].response
                 \o recent[2].message \o recent[2].response

\* _is_tool_relevant without its tests: every registered tool is relevant
is_tool_relevant_untested(query_lower, tool_name, history) == InSeq(tool_name, list_tools)

\* _is_tool_relevant
_is_tool_relevant(query_lower, tool_name, history) ==
    LET Relevant(tool) ==
            \/ ReMatches(tool.patterns, query_lower)
            \/ ContainsAny(query_lower, tool.keywords)
            \/ /\ history # <<>>
               /\ Contains(Flatten(LowerText(RecentText(history))), tool_name)
    IN  IF ~ InSeq(tool_name, list_tools) THEN FALSE
        ELSE Relevant(tool_patterns(tool_name))

\* the patterns of _extract_tool_params for the calculator, each with the
\* operator it stands for ("": the operator is the second group)
calculator_patterns ==
    << [pattern |-> Number(1) \o Spaces0 \o << Item(OpSet, 1, 1, 2) >> \o Spaces0 \o Number(3),
        op |-> <<>>],
       [pattern |-> Digits1(1) \o Spaces1 \o Lit(<<"p","l","u","s">>) \o Spaces1 \o Digits1(2),  op |-> <<"+">>],
       [pattern |-> Digits1(1) \o Spaces1 \o Lit(<<"m","i","n","u","s">>) \o Spaces1 \o Digits1(2), op |-> <<"-">>],
       [pattern |-> Digits1(1) \o Spaces1 \o Lit(<<"t","i","m","e","s">>) \o Spaces1 \o Digits1(2), op |-> <<"*">>],
       [pattern |-> Digits1(1) \o Spaces1 \o Lit(<<"d","i","v","i","d","e","d"," ","b","y">>) \o Spaces1 \o Digits1(2),
        op |-> <<"/">>],
       [pattern |-> Lit(<<"s","u","m"," ","o","f"," ">>) \o Digits1(1) \o Lit(<<" ","a","n","d"," ">>) \o Digits1(2), op |-> <<"+">>],
       [pattern |-> Lit(<<"p","r","o","d","u","c","t"," ","o","f"," ">>) \o Digits1(1) \o Lit(<<" ","a","n","d"," ">>) \o Digits1(2),
        op |-> <<"*">>],
       [pattern |-> Lit(<<"d","i","f","f","e","r","e","n","c","e"," ","b","e","t","w","e","e","n"," ">>) \o Digits1(1) \o Lit(<<" ","a","n","d"," ">>) \o Digits1(2),
        op |-> <<"-">>] >>

location_patterns ==
    << Lit(<<"w","e","a","t","h","e","r">>) \o InAtFor \o Spaces1 \o LetterWords(1),
       Lit(<<"t","e","m","p","e","r","a","t","u","r","e">>) \o InAtFor \o Spaces1 \o LetterWords(1),
       Lit(<<"f","o","r","e","c","a","s","t">>) \o InAtFor \o Spaces1 \o LetterWords(1),
       Lit(<<"i","n">>) \o Spaces1 \o LetterWords(1) \o Spaces1
           \o << Choice(<< <<"w","e","a","t","h","e","r">>, <<"t","e","m","p","e","r","a","t","u","r","e">> >>) >>,
       Lit(<<"a","t">>) \o Spaces1 \o LetterWords(1) \o Spaces1
           \o << Choice(<< <<"w","e","a","t","h","e","r">>, <<"t","e","m","p","e","r","a","t","u","r","e">> >>) >> >>

search_patterns ==
    << Lit(<<"s","e","a","r","c","h"," ","f","o","r">>) \o Spaces1 \o << Item(AnySet, 1, Many, 1) >>,
       Lit(<<"f","i","n","d"," ","i","n","f","o","r","m","a","t","i","o","n"," ","a","b","o","u","t">>) \o Spaces1 \o << Item(AnySet, 1, Many, 1) >>,
       Lit(<<"l","o","o","k"," ","u","p">>) \o Spaces1 \o << Item(AnySet, 1, Many, 1) >>,
       Lit(<<"g","o","o","g","l","e">>) \o Spaces1 \o << Item(AnySet, 1, Many, 1) >> >>

NoParams == [x \in {} |-> <<>>]

\* for pattern in patterns: the expression of the first of the remaining
\* patterns that matches
RECURSIVE CalculatorParams(_, _)
CalculatorParams(rest, query_lower) ==
    IF rest = <<>> THEN NoParams
    ELSE LET alts == << Head(rest).pattern >>
             op   == Head(rest).op
             Expression(match) ==
                 IF match.ok
                 THEN [expression |->
                           Group(alts, query_lower, match, 1) \o <<" ">>
                           \o (IF op = <<>> THEN Group(alts, query_lower, match, 2) ELSE op)
                           \o <<" ">>
                           \o Group(alts, query_lower, match, IF op = <<>> THEN 3 ELSE 2)]
                 ELSE CalculatorParams(Tail(rest), query_lower)
         IN  Expression(ReSearch(alts, query_lower))

RECURSIVE WeatherParams(_, _)
WeatherParams(rest, query_lower) ==
    IF rest = <<>> THEN [location |-> <<"D","e","l","h","i">>]
    ELSE LET alts == << Head(rest) >>
             Located(location) ==
                 IF Len(location) > 1 THEN [location |-> location]
                 ELSE WeatherParams(Tail(rest), query_lower)
             Found(match) ==
                 IF match.ok THEN Located(Trim(Group(alts, query_lower, match, 1)))
                 ELSE WeatherParams(Tail(rest), query_lower)
         IN  Found(ReSearch(alts, query_lower))

RECURSIVE SearchParams(_, _, _)
SearchParams(rest, query, query_lower) ==
    IF rest = <<>> THEN [query |-> Flatten(query), max_results |-> 3]
    ELSE LET alts == << Head(rest) >>
             Found(match) ==
                 IF match.ok
                 THEN [query |-> Trim(Group(alts, query_lower, match, 1)), max_results |-> 3]
                 ELSE SearchParams(Tail(rest), query, query_lower)
         IN  Found(ReSearch(alts, query_lower))

\* _extract_tool_params
_extract_tool_params(query, tool_name, history) ==
    LET query_lower == Flatten(LowerText(query))
    IN  CASE tool_name = n_calculator  -> CalculatorParams(calculator_patterns, query_lower)
          [] tool_name = n_get_weather -> WeatherParams(location_patterns, query_lower)
          [] tool_name = n_get_time    -> NoParams
          [] tool_name = n_web_search  -> SearchParams(search_patterns, query, query_lower)
          [] OTHER -> NoParams

\* str(tool_result['result'])
ResultToChars(result) ==
    IF result.float THEN FloatToChars(result.n, result.d) ELSE IntToChars(result.n)

\* _format_tool_response
_format_tool_response(tool_result, tool_name, original_query) ==
    IF "error" \in DOMAIN tool_result
    THEN Split(<<"S","o","r","r","y",","," ","I"," ","c","o","u","l","d","n","'","t"," ","p","r","o","c","e","s","s"," ","y","o","u","r"," ","r","e","q","u","e","s","t",":"," ","e","r","r","o","r">>)
    ELSE IF tool_name = n_calculator /\ "result" \in DOMAIN tool_result
    THEN Split(<<"T","h","e"," ","r","e","s","u","l","t"," ","i","s"," ">> \o ResultToChars(tool_result.result))
    ELSE IF tool_name = n_get_weather /\ "location" \in DOMAIN tool_result
                                      /\ "temperature" \in DOMAIN tool_result
    THEN Split(<<"C","u","r","r","e","n","t"," ","w","e","a","t","h","e","r"," ","i","n"," ">> \o tool_result.location \o <<":"," ">>
                   \o tool_result.temperature)
    ELSE IF tool_name = n_get_time /\ "current_time" \in DOMAIN tool_result
    THEN Split(<<"T","h","e"," ","c","u","r","r","e","n","t"," ","t","i","m","e"," ","i","s"," ">> \o tool_result.current_time)
    ELSE IF tool_name = n_web_search /\ "results" \in DOMAIN tool_result
                                     /\ tool_result.results # <<>>
    THEN Split(tool_result.results[1].snippet)
    ELSE Split(<<"s","t","r","(","t","o","o","l","_","r","e","s","u","l","t",")">>)

\* _calculate_tool_confidence, in hundredths
_calculate_tool_confidence(tool_result, query_lower, tool_name) ==
    IF tool_name = n_calculator /\ "result" \in DOMAIN tool_result
                                /\ "error" \notin DOMAIN tool_result
    THEN 95
    ELSE IF tool_name = n_get_time THEN 95
    ELSE IF tool_name = n_get_weather
    THEN (IF "temperature" \in DOMAIN tool_result THEN 90 ELSE 80)
    ELSE IF ContainsAny(query_lower, { tool_name, <<"c","a","l","c","u","l","a","t","e">>, <<"w","e","a","t","h","e","r">>, <<"t","i","m","e">>, <<"s","e","a","r","c","h">> })
    THEN Min(85 + 5, 95)
    ELSE Min(85, 95)

\* _safe_tool_execute
_safe_tool_execute(tool_name, params, now, fails) == execute_tool(tool_name, params, now, fails)

\* the candidate _generate_tool_responses builds from the result of a tool
ToolResponse(query, tool_name, tool_result) ==
    LET response_content == _format_tool_response(tool_result, tool_name, query)
    IN  [content |-> response_content,
         source |-> "tool",
         confidence |-> Rat(_calculate_tool_confidence(tool_result,
                                Flatten(LowerText(query)), tool_name), 100),
         response_length |-> Len(Flatten(response_content)),
         method |-> <<"t","o","o","l","_">> \o tool_name,
         tool_data |-> tool_result,
         tool_name |-> tool_name]

\* the tool generator stopping at its first candidate
generate_tool_responses_first_only(query, history, now, failing) ==
    LET Answer(tool_name, tool_result) ==
            IF "error" \in DOMAIN tool_result THEN <<>>
            ELSE << ToolResponse(query, tool_name, tool_result) >>
        Attempt(tool_name) ==
            IF _is_tool_relevant(Flatten(LowerText(query)), tool_name, history)
            THEN Answer(tool_name,
                        _safe_tool_execute(tool_name,
                                           _extract_tool_params(query, tool_name, history),
                                           now, tool_name \in failing))
            ELSE <<>>
        First(tool_responses) == SubSeq(tool_responses, 1, Min(1, Len(tool_responses)))
    IN  First(Concat([i \in DOMAIN list_tools |-> Attempt(list_tools[i])]))

\* _generate_tool_responses; failing: the tools whose execution raises
_generate_tool_responses(query, history, now, failing) ==
    LET Answer(tool_name, tool_result) ==
            IF "error" \in DOMAIN tool_result THEN <<>>
            ELSE << ToolResponse(query, tool_name, tool_result) >>
        Attempt(tool_name) ==
            IF _is_tool_relevant(Flatten(LowerText(query)), tool_name, history)
            THEN Answer(tool_name,
                        _safe_tool_execute(tool_name,
                                           _extract_tool_params(query, tool_name, history),
                                           now, tool_name \in failing))
            ELSE <<>>
    IN  Concat([i \in DOMAIN list_tools |-> Attempt(list_tools[i])])

----------------------------------------------------------------------------
(* llm_client.py and the guarded calls of personal_assistant.py *)

\* what the completion API does with a prompt: it answers with a text, or raises
Completion(text) == [ok |-> TRUE, text |-> text]
Failure(error)   == [ok |-> FALSE, text |-> error]

\* LLMClient.generate: the text of the completion; an exception of the API is
\* caught and its message returned behind "Error generating response: "
generate(completion) ==
    IF completion.ok THEN completion.text
    ELSE <<<<"E","r","r","o","r">>, <<"g","e","n","e","r","a","t","i","n","g">>, <<"r","e","s","p","o","n","s","e",":">>>> \o completion.text

\* _quota_message
_quota_message == <<<<"U","n","a","b","l","e">>, <<"t","o">>, <<"c","o","m","p","l","e","t","e">>, <<"t","h","i","s">>, <<"r","e","q","u","e","s","t">>, <<"b","e","c","a","u","s","e">>, <<"t","h","e">>, <<"A","P","I">>, <<"q","u","o","t","a">>, <<"i","s">>, <<"e","x","h","a","u","s","t","e","d",".">>>>

\* _safe_llm_generate: generate raises nothing, so its result is passed on
_safe_llm_generate(completion) == generate(completion)

\* DynamicRAGSystem.query: the contents of the two best documents, or None
rag_system_query(docs, learned, question, now) ==
    LET Answer(relevant_docs) ==
            IF relevant_docs = <<>> THEN [found |-> FALSE, context |-> <<>>]
            ELSE [found |-> TRUE,
                  context |-> IF Len(relevant_docs) = 1 THEN relevant_docs[1].content
                              ELSE relevant_docs[1].content \o relevant_docs[2].content]
    IN  Answer(search(docs, learned, question, top_k_retrieval, now))

\* _safe_rag_query; fails: the index raises
_safe_rag_query(docs, learned, question, now, fails) ==
    IF fails THEN [found |-> FALSE, context |-> <<>>]
    ELSE rag_system_query(docs, learned, question, now)

\* _safe_rag_learn; fails: the index raises
_safe_rag_learn(docs, learned, question, content, source, now, fails) ==
    IF fails THEN [documents |-> docs, learned_queries |-> learned]
    ELSE learn_from_interaction(docs, learned, question, content, source, now)

----------------------------------------------------------------------------
(* personal_assistant.py: the generators *)

\* _generate_llm_response
_generate_llm_response(completion) ==
    LET basic_response == _safe_llm_generate(completion)
    IN  [content |-> basic_response,
         source |-> "direct_llm",
         confidence |-> Rat(70, 100),
         response_length |-> Len(Flatten(basic_response)),
         method |-> <<"l","l","m","_","b","a","s","i","c">>]

\* _enhance_query_with_memory
_enhance_query_with_memory(question, history, memories) ==
    LET values == SetToSeq({ memories[k] : k \in DOMAIN memories })
        recent == SubSeq(history, Max(1, Len(history) - 1), Len(history))
        enhanced_terms ==
            SelectSeq(Concat(values), LAMBDA word : Len(word) > 3)
            \o Concat([i \in DOMAIN recent |->
                          SubSeq(recent[i].message, 1, Min(3, Len(recent[i].message)))
                          \o SubSeq(recent[i].response, 1, Min(3, Len(recent[i].response)))])
        unique_terms == { LowerWord(enhanced_terms[i]) :
                              i \in { j \in DOMAIN enhanced_terms : Len(enhanced_terms[j]) > 3 } }
    IN  IF enhanced_terms # <<>> THEN question \o SetToSeq(unique_terms) ELSE question

\* _generate_rag_response: the candidate as a sequence of none or one
_generate_rag_response(docs, learned, question, history, memories, now, fails) ==
    LET enhanced_query == _enhance_query_with_memory(question, history, memories)
        Candidate(rag_context) ==
            IF ~ rag_context.found \/ rag_context.context = <<>> THEN <<>>
            ELSE << [content |-> rag_context.context,
                     source |-> "rag",
                     confidence |-> Rat(85, 100),
                     response_length |-> Len(Flatten(rag_context.context)),
                     method |-> <<"r","a","g","_","b","a","s","i","c">>] >>
    IN  Candidate(_safe_rag_query(docs, learned, enhanced_query, now, fails))

\* _generate_all_responses
_generate_all_responses(docs, learned, question, history, memories, now, completion, rag_fails, failing) ==
    << _generate_llm_response(completion) >>
    \o _generate_rag_response(docs, learned, question, history, memories, now, rag_fails)
    \o _generate_tool_responses(question, history, now, failing)

----------------------------------------------------------------------------
(* personal_assistant.py: the selector *)

source_scores(source) ==
    CASE source = "tool" -> 90
      [] source = "rag" -> 70
      [] source = "direct_llm" -> 65
      [] source = "fallback" -> 10
      [] OTHER -> 50

hedging_phrases == { <<"e","r","r","o","r">>, <<"u","n","a","b","l","e">>, <<"c","a","n","n","o","t">>, <<"d","o","n","'","t"," ","k","n","o","w">>, <<"i"," ","d","o","n","'","t"," ","h","a","v","e">> }

tool_keywords == { <<"w","e","a","t","h","e","r">>, <<"c","a","l","c","u","l","a","t","e">>, <<"t","i","m","e">>, <<"s","e","a","r","c","h">>, <<"m","a","t","h">>, <<"t","e","m","p","e","r","a","t","u","r","e">> }

\* set(word.lower() for word in text.split() if len(word) > 3)
LongTerms(text) == { LowerWord(text[i]) : i \in { j \in DOMAIN text : Len(text[j]) > 3 } }

\* the score without the 40 points taken off for a phrase of failure
raw_score_no_hedging(response, question) ==
    LET source == IF "source" \in DOMAIN response THEN response.source ELSE "unknown"
        content == IF "content" \in DOMAIN response THEN response.content ELSE <<>>
        method == IF "method" \in DOMAIN response THEN response.method ELSE <<>>
        word_count == WordCount(content)
        query_terms == LongTerms(question)
        common_terms == query_terms \cap LongTerms(content)
        q == Max(1, Cardinality(query_terms))
        length == IF content = <<>> THEN 0
                  ELSE IF source = "tool"
                       THEN (IF 5 <= word_count /\ word_count <= 50 THEN 200
                             ELSE IF word_count < 5 THEN 100
                             ELSE Min(word_count * 3, 200))
                       ELSE Min(word_count * 5, 200)
        hedging == 0
        relevance == IF query_terms # {} THEN Cardinality(common_terms) * 300 ELSE 0
        keyword == IF source = "tool"
                      /\ ContainsAny(Flatten(LowerText(question)), tool_keywords)
                   THEN 250 ELSE 0
        memory == IF Contains(method, <<"m","e","m","o","r","y">>) THEN 150 ELSE 0
    IN  Rat((source_scores(source) * 10 + length - hedging + keyword + memory) * q + relevance,
            10 * q)

\* the score before its floor, as the fraction n / d with d = 10 * len(query_terms),
\* or d = 10 for a query without terms
RawScore(response, question) ==
    LET source == IF "source" \in DOMAIN response THEN response.source ELSE "unknown"
        content == IF "content" \in DOMAIN response THEN response.content ELSE <<>>
        method == IF "method" \in DOMAIN response THEN response.method ELSE <<>>
        word_count == WordCount(content)
        query_terms == LongTerms(question)
        common_terms == query_terms \cap LongTerms(content)
        q == Max(1, Cardinality(query_terms))
        length == IF content = <<>> THEN 0
                  ELSE IF source = "tool"
                       THEN (IF 5 <= word_count /\ word_count <= 50 THEN 200
                             ELSE IF word_count < 5 THEN 100
                             ELSE Min(word_count * 3, 200))
                       ELSE Min(word_count * 5, 200)
        hedging == IF ContainsAny(Flatten(LowerText(content)), hedging_phrases) THEN 400 ELSE 0
        relevance == IF query_terms # {} THEN Cardinality(common_terms) * 300 ELSE 0
        keyword == IF source = "tool"
                      /\ ContainsAny(Flatten(LowerText(question)), tool_keywords)
                   THEN 250 ELSE 0
        memory == IF Contains(method, <<"m","e","m","o","r","y">>) THEN 150 ELSE 0
    IN  Rat((source_scores(source) * 10 + length - hedging + keyword + memory) * q + relevance,
            10 * q)

\* _calculate_response_score without its last line
calculate_response_score_no_floor(response, question) == RawScore(response, question)

\* _calculate_response_score: max(score, 10)
_calculate_response_score(response, question) ==
    LET Floored(score) == IF RatLess(score, Rat(10, 1)) THEN Rat(10, 1) ELSE score
    IN  Floored(RawScore(response, question))

fallback_response ==
    [content |-> <<<<"I","'","m">>, <<"c","u","r","r","e","n","t","l","y">>, <<"u","n","a","b","l","e">>, <<"t","o">>, <<"p","r","o","c","e","s","s">>, <<"y","o","u","r">>, <<"r","e","q","u","e","s","t",".">>, <<"P","l","e","a","s","e">>, <<"t","r","y">>, <<"a","g","a","i","n",".">>>>,
     source |-> "fallback",
     confidence |-> Rat(10, 100)]

\* the index of the last response of the highest score
best_of_last(responses, question) ==
    LET Highest(scored_responses) ==
            CHOOSE i \in DOMAIN scored_responses :
                /\ \A j \in DOMAIN scored_responses :
                       RatLeq(scored_responses[j], scored_responses[i])
                /\ \A j \in (i + 1)..Len(scored_responses) :
                       RatLess(scored_responses[j], scored_responses[i])
    IN  Highest([i \in DOMAIN responses |-> _calculate_response_score(responses[i], question)])

\* max(scored_responses, key=lambda x: x[0]): the index of the first response of
\* the highest score
Best(responses, question) ==
    LET Highest(scored_responses) ==
            CHOOSE i \in DOMAIN scored_responses :
                /\ \A j \in DOMAIN scored_responses :
                       RatLeq(scored_responses[j], scored_responses[i])
                /\ \A j \in 1..(i - 1) :
                       RatLess(scored_responses[j], scored_responses[i])
    IN  Highest([i \in DOMAIN responses |-> _calculate_response_score(responses[i], question)])

\* _select_response_dynamically
_select_response_dynamically(question, responses) ==
    IF responses = <<>> THEN fallback_response
    ELSE LET Confidence(best_score) ==
                 IF RatLess(Rat(95, 100), Rat(best_score.n, best_score.d * 100))
                 THEN Rat(95, 100)
                 ELSE Rat(best_score.n, best_score.d * 100)
             Selected(best_response) ==
                 ("confidence" :> Confidence(_calculate_response_score(best_response, question)))
                     @@ best_response
         IN  Selected(responses[Best(responses, question)])

----------------------------------------------------------------------------
(* personal_assistant.py: the memory refiner *)

\* the refiner comes to its call of the language model: the original is long
\* enough and no failure text, and a fact of more than 2 characters is known
AsksRefinement(original_response, memories) ==
    /\ ~ (Len(Flatten(original_response)) < 10)
    /\ ~ Contains(Flatten(LowerText(original_response)), <<"u","n","a","b","l","e"," ","t","o"," ","c","o","m","p","l","e","t","e">>)
    /\ \E k \in DOMAIN memories : Len(Flatten(memories[k])) > 2

\* the refiner without the tests of the rewrite: what the language model gave
\* is returned whenever it was asked
refine_unvalidated(original_response, memories, completion) ==
    IF ~ AsksRefinement(original_response, memories) THEN original_response
    ELSE _safe_llm_generate(completion)

\* _refine_response_with_memory; completion: what the API does with the prompt
_refine_response_with_memory(original_response, memories, completion) ==
    IF ~ AsksRefinement(original_response, memories) THEN original_response
    ELSE LET refined_response == _safe_llm_generate(completion)
         IN  IF /\ refined_response # <<>>
                /\ refined_response # _quota_message
                /\ Len(Flatten(refined_response)) > 10
                /\ ~ Contains(Flatten(LowerText(refined_response)), <<"u","n","a","b","l","e"," ","t","o"," ","c","o","m","p","l","e","t","e">>)
             THEN refined_response
             ELSE original_response

----------------------------------------------------------------------------
(* memory_manager.py: the conversation log *)

max_conversation_history == 10

\* store_conversation with the row put in place of the rows of the session
store_conversation_replacing(rows, user_id, session_id, message, response, now) ==
    Append(SelectSeq(rows, LAMBDA row : row.user_id # user_id \/ row.session_id # session_id),
           [id |-> Len(rows) + 1, user_id |-> user_id, session_id |-> session_id,
            message |-> message, response |-> response, timestamp |-> now])

\* store_conversation: the rows of table conversations after the call, the row
\* stamped with the second it is stored in
store_conversation(rows, user_id, session_id, message, response, now) ==
    Append(rows, [id |-> Len(rows) + 1, user_id |-> user_id, session_id |-> session_id,
                  message |-> message, response |-> response, timestamp |-> now])

Reverse(seq) == [i \in DOMAIN seq |-> seq[Len(seq) + 1 - i]]

\* get_recent_conversations: the results the call can have. The rows of the
\* user and session come ORDER BY timestamp DESC, rows of one timestamp in an
\* order SQL leaves open; the first limit of them are returned, reversed
get_recent_conversations(rows, user_id, session_id, limit) ==
    LET mine   == { i \in DOMAIN rows : rows[i].user_id = user_id
                                        /\ rows[i].session_id = session_id }
        n      == Cardinality(mine)
        orders == { p \in [1..n -> mine] :
                      /\ \A i, j \in 1..n : i # j => p[i] # p[j]
                      /\ \A i, j \in 1..n :
                             i < j => rows[p[i]].timestamp >= rows[p[j]].timestamp }
    IN  { Reverse([i \in 1..Min(limit, n) |->
                      [message |-> rows[p[i]].message, response |-> rows[p[i]].response]]) :
          p \in orders }

----------------------------------------------------------------------------
(* The retrieval index as a state machine *)

MaxDocs  == 2      \* documents the index may hold
MaxK     == 2      \* largest k given to search
MaxTicks == 1      \* times the clock advances
TickDays == 30     \* days the clock advances at a time

KnowledgeContents == { <<>>, <<w_cats>> }

\* documents given to add_document directly: one without content, one without
\* the confidence key
RawDocuments ==
    { [source |-> "raw"],
      [content |-> <<w_cats, w_fish>>, source |-> "raw"] }

LearnQueries == { <<w_CatsQ>>, <<w_bird, w_dogs>> }
LearnResponses ==
    { <<w_fish, w_dogs, w_fish>> \o Rep(w_cat, 8),  \* 11 words
      Rep(w_the, 9) \o <<w_bird>> }                 \* 10 words
LearnSources == { "direct_llm" }

SearchQueries == { <<w_cats>>, <<w_bird>>, <<w_marks>>, <<w_cat>> }

NoCall == [op |-> "init", q |-> <<>>, r |-> <<>>, s |-> "", k |-> 0,
           result |-> <<>>, repeat |-> FALSE]

Call(op, q, r, s, k, result) ==
    [op |-> op, q |-> q, r |-> r, s |-> s, k |-> k, result |-> result,
     repeat |-> (last.op = op /\ last.q = q /\ last.r = r /\ last.s = s /\ last.k = k)]

NoMemCall == [op |-> "init", user_id |-> "", memory_key |-> "", memory_value |-> <<>>,
              before |-> {}, result |-> <<>>]

\* performance_metrics of a new assistant
NoMetrics == [total_queries |-> 0, sources_used |-> <<>>, learning_opportunities |-> 0,
              memory_usage_count |-> 0]

NoTurn == [n |-> 0, status |-> "init", facts |-> {}]

NoSelection == [done |-> FALSE]

NoRefinement == [done |-> FALSE]

NoEvaluation == [calls |-> 0]

NoRoute == [calls |-> 0]

NoGeneration == [done |-> FALSE]

NoThought == [done |-> FALSE]

\* nothing has been asked of the components that stand on their own
Idle ==
    /\ sel = NoSelection
    /\ ref = NoRefinement
    /\ tg = NoGeneration

\* a fresh installation: an empty knowledge base, an empty database and a new
\* assistant
Fresh ==
    /\ documents = <<>>
    /\ learned_queries = <<>>
    /\ today = 0
    /\ last = NoCall
    /\ user_memories = {}
    /\ memory_seq = 0
    /\ mlast = NoMemCall
    /\ conversations = <<>>
    /\ clock = 0
    /\ performance_metrics = NoMetrics
    /\ learning_enabled = TRUE
    /\ hash_seed = 0
    /\ pq = NoTurn
    /\ evaluation_history = <<>>
    /\ ev = NoEvaluation
    /\ routing_history = <<>>
    /\ rt = NoRoute
    /\ ra = NoThought

Init == Fresh /\ Idle

\* DynamicPersonalAssistant.add_knowledge(content, source)
AddKnowledge(content, source) ==
    /\ Len(documents) < MaxDocs
    /\ documents' = add_document(documents, KnowledgeDocument(content, source, today))
    /\ last' = Call("add_knowledge", content, <<>>, source, 0, <<>>)
    /\ UNCHANGED <<learned_queries, today>>
    /\ UNCHANGED memVars
    /\ UNCHANGED pqVars

\* DynamicRAGSystem.add_document(document)
AddDocument(document) ==
    /\ Len(documents) < MaxDocs
    /\ documents' = add_document(documents, document)
    /\ last' = Call("add_document", <<>>, <<>>, "", 0, <<document>>)
    /\ UNCHANGED <<learned_queries, today>>
    /\ UNCHANGED memVars
    /\ UNCHANGED pqVars

\* DynamicRAGSystem.learn_from_interaction(query, response, source)
LearnFromInteraction(query, response, source) ==
    /\ Len(documents) < MaxDocs
    /\ LET after == learn_from_interaction(documents, learned_queries,
                                           query, response, source, today)
       IN  /\ documents' = after.documents
           /\ learned_queries' = after.learned_queries
    /\ last' = Call("learn", query, response, source, 0, <<>>)
    /\ UNCHANGED today
    /\ UNCHANGED memVars
    /\ UNCHANGED pqVars

\* DynamicRAGSystem.search(query, k)
Search(query, k) ==
    /\ last' = Call("search", query, <<>>, "", k,
                    search(documents, learned_queries, query, k, today))
    /\ UNCHANGED <<documents, learned_queries, today>>
    /\ UNCHANGED memVars
    /\ UNCHANGED pqVars

\* time passes
Tick ==
    /\ today + TickDays <= MaxTicks * TickDays
    /\ today' = today + TickDays
    /\ last' = Call("tick", <<>>, <<>>, "", 0, <<>>)
    /\ UNCHANGED <<documents, learned_queries>>
    /\ UNCHANGED memVars
    /\ UNCHANGED pqVars

NextRag ==
    \/ \E content \in KnowledgeContents : AddKnowledge(content, "user_input")
    \/ \E document \in RawDocuments : AddDocument(document)
    \/ \E query \in LearnQueries, response \in LearnResponses, source \in LearnSources :
           LearnFromInteraction(query, response, source)
    \/ \E query \in SearchQueries, k \in 1..MaxK : Search(query, k)
    \/ Tick

SpecRag == Init /\ [][NextRag]_vars

----------------------------------------------------------------------------
(* Claims about the retrieval index *)

\* a search result without the score search added to it
DocOf(x) == [f \in (DOMAIN x) \ {"relevance_score"} |-> x[f]]

\* some non-empty term extracted from the query occurs in the document's content
HasQueryTerm(query, document) ==
    LET terms == _extract_terms(query)
    IN  \E i \in DOMAIN terms :
            terms[i] # <<>> /\ TermInText(terms[i], LowerText(document.content))

\* the score search gives document i for the query of the last call
ScoreOf(i) == Scored(documents, learned_queries, last.q, today)[i].relevance_score

NumPositive == Cardinality({ i \in DOMAIN documents : ScoreOf(i).n > 0 })

ReturnedWithScore(i) ==
    \E j \in DOMAIN last.result :
        /\ DocOf(last.result[j]) = documents[i]
        /\ last.result[j].relevance_score.n > 0

DocConfidence(document) ==
    IF "confidence" \in DOMAIN document THEN document.confidence ELSE 5

\* C5 as stated: after a search, every document of the index that holds a term of
\* the query is among the results, with a score above 0, whatever k is and
\* whatever else the index holds.
C5_SearchReturnsEveryMatch ==
    last.op = "search" =>
        \A i \in DOMAIN documents :
            HasQueryTerm(last.q, documents[i]) => ReturnedWithScore(i)

\* C5 amended: a document of positive confidence that holds a term of the query
\* scores above 0, and search returns it whenever at most k documents score above 0.
C5_MatchScoresAndFitsInK ==
    last.op = "search" =>
        \A i \in DOMAIN documents :
            (HasQueryTerm(last.q, documents[i]) /\ DocConfidence(documents[i]) > 0) =>
                /\ ScoreOf(i).n > 0
                /\ (NumPositive <= last.k => ReturnedWithScore(i))

\* a search over two or more documents, the query widened by learned associations,
\* one of the documents found through its case-folded content
C5_Witness ==
    /\ last.op = "search"
    /\ Len(documents) >= 2
    /\ NumPositive <= last.k
    /\ Len(_extract_terms(_enhance_query_with_learning(learned_queries, last.q)))
           > 2 * Len(_extract_terms(last.q))
    /\ \E i \in DOMAIN documents :
           /\ HasQueryTerm(last.q, documents[i])
           /\ ~ \E t \in { _extract_terms(last.q)[n] : n \in DOMAIN _extract_terms(last.q) } :
                    TermInText(t, documents[i].content)

\* C6 as stated: a search whose query has no term occurring in any document
\* returns the empty sequence (here for an index whose documents all have content).
C6_NoOverlapNoResult ==
    (/\ last.op = "search"
     /\ \A i \in DOMAIN documents : documents[i].content # <<>>
     /\ \A i \in DOMAIN documents : ~ HasQueryTerm(last.q, documents[i]))
        => last.result = <<>>

\* C7 as stated: every document of the collection has non-empty content.
C7_ContentNonEmpty ==
    \A i \in DOMAIN documents : documents[i].content # <<>>

\* C8: a learn_from_interaction call that repeats the call before it, with a
\* response of more than 10 words, appends a second copy of the document and
\* leaves every association list as it was.
C8_RepeatedLearning ==
    [][ (last.op = "learn" /\ last'.op = "learn" /\ last'.repeat /\ WordCount(last'.r) > 10)
          => /\ learned_queries' = learned_queries
             /\ Len(documents) >= 1
             /\ documents[Len(documents)].content = LearnedContent(last.q, last.r)
             /\ Len(documents') = Len(documents) + 1
             /\ SubSeq(documents', 1, Len(documents)) = documents
             /\ documents'[Len(documents')].content = LearnedContent(last.q, last.r)
      ]_vars

\* the second of two equal calls has been made, and there were associations to add
C8_Witness ==
    /\ last.op = "learn"
    /\ last.repeat
    /\ WordCount(last.r) > 10
    /\ \E t \in DOMAIN learned_queries : Len(learned_queries[t]) >= 2

----------------------------------------------------------------------------
(* The memory store as a state machine *)

MaxStores == 3     \* store_memory calls

Users     == { "u1", "u2" }
MemKeys   == { "name", "city" }
MemValues == { <<w_cats>>, <<w_dogs>> }

\* MemoryManager.store_memory(user_id, memory_key, memory_value)
StoreMemory(user_id, memory_key, memory_value) ==
    /\ memory_seq < MaxStores
    /\ LET after == store_memory(user_memories, memory_seq,
                                 user_id, memory_key, memory_value)
       IN  /\ user_memories' = after.rows
           /\ memory_seq' = after.seq
    /\ mlast' = [op |-> "store_memory", user_id |-> user_id, memory_key |-> memory_key,
                 memory_value |-> memory_value, before |-> user_memories,
                 result |-> <<>>]
    /\ UNCHANGED ragVars
    /\ UNCHANGED pqVars

\* MemoryManager.get_user_memories(user_id)
GetUserMemories(user_id) ==
    /\ mlast' = [op |-> "get_user_memories", user_id |-> user_id, memory_key |-> "",
                 memory_value |-> <<>>, before |-> user_memories,
                 result |-> get_user_memories(user_memories, user_id)]
    /\ UNCHANGED <<user_memories, memory_seq>>
    /\ UNCHANGED ragVars
    /\ UNCHANGED pqVars

NextMem ==
    \/ \E user_id \in Users, memory_key \in MemKeys, memory_value \in MemValues :
           StoreMemory(user_id, memory_key, memory_value)
    \/ \E user_id \in Users : GetUserMemories(user_id)

SpecMem == Init /\ [][NextMem]_vars

----------------------------------------------------------------------------
(* Claims about the memory store *)

RowsOf(rows, user_id, memory_key) ==
    { r \in rows : r.user_id = user_id /\ r.memory_key = memory_key }

\* C9: the fact store never holds two rows for one (user, key); after
\* store_memory(u, k, v) the one row of (u, k) holds v, whatever was stored there
\* before, and the rows of every other user or key are the rows from before the call.
C9_LastWriteWins ==
    /\ \A r1 \in user_memories, r2 \in user_memories :
           (r1.user_id = r2.user_id /\ r1.memory_key = r2.memory_key) => r1 = r2
    /\ mlast.op = "store_memory" =>
           /\ \E r \in user_memories :
                  /\ RowsOf(user_memories, mlast.user_id, mlast.memory_key) = { r }
                  /\ r.memory_value = mlast.memory_value
           /\ user_memories \ RowsOf(user_memories, mlast.user_id, mlast.memory_key)
                  = mlast.before \ RowsOf(mlast.before, mlast.user_id, mlast.memory_key)
    /\ mlast.op = "get_user_memories" =>
           \A r \in user_memories :
               r.user_id = mlast.user_id =>
                   /\ r.memory_key \in DOMAIN mlast.result
                   /\ mlast.result[r.memory_key] = r.memory_value

\* a second store under the same (user, key) with another value, facts of another
\* user and of another key being present
C9_Witness ==
    /\ mlast.op = "store_memory"
    /\ \E r \in mlast.before :
           /\ r.user_id = mlast.user_id
           /\ r.memory_key = mlast.memory_key
           /\ r.memory_value # mlast.memory_value
    /\ \E r \in mlast.before :
           r.user_id # mlast.user_id \/ r.memory_key # mlast.memory_key

----------------------------------------------------------------------------
(* The assistant as a state machine: process_query *)

MaxQueries == 2    \* process_query calls
MaxSeed    == 1    \* restarts of the process

q_sum  == <<<<"W","h","a","t">>, <<"i","s">>, <<"2","5">>, <<"+">>, <<"1","7","?">>>>
q_name == <<<<"M","y">>, <<"n","a","m","e">>, <<"i","s">>, <<"A","l","e","x">>>>

Questions == { q_sum, q_name }

\* "" stands for the session id left out
Sessions == { "", "s1" }

t_short == <<<<"T","h","e">>, <<"a","n","s","w","e","r">>, <<"i","s">>, <<"4","2">>>>
t_long  == <<<<"w","h","a","t">>, <<"y","o","u">>, <<"g","e","t">>, <<"w","h","e","n">>, <<"y","o","u">>, <<"a","d","d">>, <<"t","h","e","s","e">>, <<"t","w","o">>, <<"n","u","m","b","e","r","s">>, <<"i","s">>, <<"4","2">>>>

\* what the completion API may do with a prompt
Completions == { Completion(t_short), Completion(t_long), Failure(<<<<"i","n","s","u","f","f","i","c","i","e","n","t","_","q","u","o","t","a">>>>) }

\* no prompt is sent
NotCalled == [called |-> FALSE]

\* the calls that may fail in a turn
Faults == { "store_memory", "get_recent_conversations", "get_user_memories",
            "store_conversation", "rag_query", "rag_learn", "tool" }

FailingTools(fault) ==
    IF fault = "tool" THEN { list_tools[i] : i \in DOMAIN list_tools } ELSE {}

\* str(uuid.uuid4()): an id no stored turn carries
uuid4 == "uuid" \o ToString(Len(conversations))

\* the same without the test of the source: the refiner is called for tool
\* candidates too
selection_refining_tools(docs, learned, rows, user_id, query, history, completion, fault, now) ==
    LET Refines(memories, selected) == DOMAIN memories # {}
        Selected(memories, responses, selected) ==
            [user_memories |-> memories, responses |-> responses, selected |-> selected,
             refines |-> Refines(memories, selected),
             asks |-> Refines(memories, selected) /\ AsksRefinement(selected.content, memories)]
        Generated(memories, responses) ==
            Selected(memories, responses, _select_response_dynamically(query, responses))
        Remembered(memories) ==
            Generated(memories,
                      _generate_all_responses(docs, learned, query, history, memories, now,
                          completion, fault = "rag_query", FailingTools(fault)))
    IN  Remembered(get_user_memories(rows, user_id))

\* process_query from reading the facts to selecting: the facts read, the
\* candidates generated, the candidate selected, whether the refiner is called
\* and whether it comes to ask the language model
Selection(docs, learned, rows, user_id, query, history, completion, fault, now) ==
    LET Refines(memories, selected) == DOMAIN memories # {} /\ selected.source # "tool"
        Selected(memories, responses, selected) ==
            [user_memories |-> memories, responses |-> responses, selected |-> selected,
             refines |-> Refines(memories, selected),
             asks |-> Refines(memories, selected) /\ AsksRefinement(selected.content, memories)]
        Generated(memories, responses) ==
            Selected(memories, responses, _select_response_dynamically(query, responses))
        Remembered(memories) ==
            Generated(memories,
                      _generate_all_responses(docs, learned, query, history, memories, now,
                          completion, fault = "rag_query", FailingTools(fault)))
    IN  Remembered(get_user_memories(rows, user_id))

\* the rewrite returned as a candidate of its own, of full confidence
rewritten_as_certain(best_response, refined_response) ==
    [best_response EXCEPT !.content = refined_response, !.confidence = Rat(1, 1)]

\* best_response["content"] = refined_response: the selected candidate with the
\* rewrite as its content, its other keys as they were
Rewritten(best_response, refined_response) ==
    [best_response EXCEPT !.content = refined_response]

\* the same without the test of the confidence: every turn is learned from while
\* learning is enabled
conclusion_learning_always(docs, learned, enabled, query, selection, refinement, fault, now) ==
    LET selected == selection.selected
        refined_response ==
            IF selection.asks
            THEN _refine_response_with_memory(selected.content, selection.user_memories,
                                              refinement)
            ELSE selected.content
        best_response ==
            IF selection.refines /\ refined_response # <<>>
                                 /\ refined_response # _quota_message
            THEN Rewritten(selected, refined_response)
            ELSE selected
        learns == enabled
    IN  [best_response |-> best_response, learns |-> learns,
         index |-> IF learns
                   THEN _safe_rag_learn(docs, learned, query, best_response.content,
                                        best_response.source, now, fault = "rag_learn")
                   ELSE [documents |-> docs, learned_queries |-> learned]]

\* process_query from refining to learning: the final candidate, whether the
\* turn is learned from, and the index after it
Conclusion(docs, learned, enabled, query, selection, refinement, fault, now) ==
    LET selected == selection.selected
        refined_response ==
            IF selection.asks
            THEN _refine_response_with_memory(selected.content, selection.user_memories,
                                              refinement)
            ELSE selected.content
        best_response ==
            IF selection.refines /\ refined_response # <<>>
                                 /\ refined_response # _quota_message
            THEN Rewritten(selected, refined_response)
            ELSE selected
        learns == enabled /\ RatLess(Rat(7, 10), best_response.confidence)
    IN  [best_response |-> best_response, learns |-> learns,
         index |-> IF learns
                   THEN _safe_rag_learn(docs, learned, query, best_response.content,
                                        best_response.source, now, fault = "rag_learn")
                   ELSE [documents |-> docs, learned_queries |-> learned]]

\* get_user_memories called before the fact of the query is stored
rows_read_before_store(before, stored) == before

\* the rows get_user_memories reads: it is called after store_memory
RowsRead(before, stored) == stored

\* memory_used counted from the history alone
memory_used_history_only(conversation_history, memories) == Len(conversation_history) > 0

\* memory_used: len(conversation_history) > 0 or len(user_memories) > 0
MemoryUsed(conversation_history, memories) ==
    Len(conversation_history) > 0 \/ DOMAIN memories # {}

\* process_query(user_id, query, session_id). completion is what the API does
\* with the prompt of the direct-LLM generator, refinements what it may do with
\* the prompt of the refiner; fault is the call that raises in this turn
\* ("none": none); elapsed is the seconds gone since the last turn
ProcessQuery(user_id, session_id, query, completion, refinements, fault, elapsed) ==
    \E memory_data \in { extract(query, hash_seed) } :
    LET metrics == [performance_metrics EXCEPT !.total_queries = @ + 1]
        sid     == IF session_id = "" THEN uuid4 ELSE session_id
        stored  == IF memory_data.is_memory
                   THEN store_memory(user_memories, memory_seq, user_id,
                                     memory_data.key, memory_data.value)
                   ELSE [rows |-> user_memories, seq |-> memory_seq]
        facts   == IF memory_data.is_memory
                   THEN pq.facts \cup { [user_id |-> user_id, type |-> memory_data.type,
                                         value |-> memory_data.value,
                                         key |-> memory_data.key] }
                   ELSE pq.facts
        turn    == [n |-> pq.n + 1, user_id |-> user_id, session_id |-> sid,
                    query |-> query, completion |-> completion, fault |-> fault]
    IN  /\ pq.n < MaxQueries
        /\ clock' = clock + elapsed
        /\ UNCHANGED <<today, last, mlast, learning_enabled, hash_seed, sel, utilVars>>
        /\ IF fault = "store_memory" /\ memory_data.is_memory
           THEN /\ performance_metrics' = metrics
                /\ pq' = turn @@ [status |-> "raised", facts |-> pq.facts]
                /\ UNCHANGED <<documents, learned_queries, user_memories, memory_seq,
                               conversations>>
           ELSE IF fault \in { "get_recent_conversations", "get_user_memories" }
           THEN /\ performance_metrics' = metrics
                /\ user_memories' = stored.rows
                /\ memory_seq' = stored.seq
                /\ pq' = turn @@ [status |-> "raised", facts |-> facts]
                /\ UNCHANGED <<documents, learned_queries, conversations>>
           ELSE \E history \in get_recent_conversations(conversations, user_id, sid,
                                                        max_conversation_history) :
                \E selection \in { Selection(documents, learned_queries,
                                             RowsRead(user_memories, stored.rows), user_id,
                                             query, history, completion, fault, today) } :
                \E refinement \in (IF selection.asks THEN refinements ELSE { NotCalled }) :
                \E conclusion \in { Conclusion(documents, learned_queries, learning_enabled,
                                               query, selection, refinement, fault, today) } :
                LET best_response == conclusion.best_response
                    counted == IF conclusion.learns
                               THEN [metrics EXCEPT !.learning_opportunities = @ + 1]
                               ELSE metrics
                    used    == IF best_response.source \in DOMAIN metrics.sources_used
                               THEN metrics.sources_used[best_response.source] ELSE 0
                    memory_used == MemoryUsed(history, selection.user_memories)
                    seen    == turn @@ [facts |-> facts, memory_data |-> memory_data,
                                        history |-> history,
                                        user_memories |-> selection.user_memories,
                                        responses |-> selection.responses,
                                        selected |-> selection.selected,
                                        refinement |-> refinement,
                                        best_response |-> best_response,
                                        learns |-> conclusion.learns]
                IN  /\ user_memories' = stored.rows
                    /\ memory_seq' = stored.seq
                    /\ documents' = conclusion.index.documents
                    /\ learned_queries' = conclusion.index.learned_queries
                    /\ IF fault = "store_conversation"
                       THEN /\ performance_metrics' = counted
                            /\ pq' = seen @@ [status |-> "raised"]
                            /\ UNCHANGED conversations
                       ELSE /\ conversations' = store_conversation(conversations, user_id, sid,
                                                    query, best_response.content, clock + elapsed)
                            /\ performance_metrics' =
                                   [counted EXCEPT
                                      !.sources_used = (best_response.source :> used + 1) @@ @,
                                      !.memory_usage_count = IF memory_used THEN @ + 1 ELSE @]
                            /\ pq' = seen @@
                                   [status |-> "returned",
                                    result |-> [response |-> best_response.content,
                                                session_id |-> sid,
                                                source |-> best_response.source,
                                                confidence |-> best_response.confidence,
                                                learning_applied |-> learning_enabled,
                                                memory_used |-> memory_used,
                                                user_memories_count |->
                                                    Cardinality(DOMAIN selection.user_memories)]]

\* enable_learning(enabled)
EnableLearning(enabled) ==
    /\ learning_enabled' = enabled
    /\ UNCHANGED ragVars
    /\ UNCHANGED memVars
    /\ UNCHANGED <<conversations, clock, performance_metrics, hash_seed, pq, sel, utilVars>>

\* the process ends and a new one constructs the assistant: the knowledge base
\* and the database are read back from disk, the counters start again, and the
\* new process salts its str hashes with another seed
Restart ==
    /\ hash_seed < MaxSeed
    /\ hash_seed' = hash_seed + 1
    /\ performance_metrics' = NoMetrics
    /\ learning_enabled' = TRUE
    /\ UNCHANGED ragVars
    /\ UNCHANGED memVars
    /\ UNCHANGED <<conversations, clock, pq, sel, utilVars>>

\* the assistant with collaborators that work
NextPQ ==
    \/ \E session_id \in Sessions, query \in Questions, completion \in Completions :
           ProcessQuery("u1", session_id, query, completion, Completions, "none", 1)
    \/ \E enabled \in BOOLEAN : EnableLearning(enabled)
    \/ Restart

SpecPQ == Init /\ [][NextPQ]_vars

\* the assistant with a collaborator that fails in a turn
NextFault ==
    \E query \in Questions, fault \in Faults :
        ProcessQuery("u1", "s1", query, Completion(t_long), { Completion(t_long) }, fault, 1)

SpecFault == Init /\ [][NextFault]_vars

----------------------------------------------------------------------------
(* The selector on its own *)

MaxResponses == 3     \* candidates in a list

SelectQuestions == { q_sum, <<<<"c","a","l","c","u","l","a","t","e">>, <<"t","h","e">>, <<"w","e","a","t","h","e","r">>>> }

SampleResponses ==
    { _generate_llm_response(Completion(t_short)),
      _generate_llm_response(Completion(<<<<"T","h","e">>, <<"a","n","s","w","e","r">>, <<"i","s">>, <<"4","3">>>>)),
      _generate_llm_response(Completion(<<<<"I">>, <<"d","o","n","'","t">>, <<"k","n","o","w">>, <<"t","h","e">>, <<"w","e","a","t","h","e","r">>>>)),
      [content |-> <<<<"t","h","e">>, <<"w","e","a","t","h","e","r">>, <<"r","e","p","o","r","t">>>>, source |-> "rag", confidence |-> Rat(85, 100),
       response_length |-> 18, method |-> <<"r","a","g","_","b","a","s","i","c">>],
      ToolResponse(q_sum, n_calculator,
                   execute_tool(n_calculator, [expression |-> <<"2","5"," ","+"," ","1","7">>], 0, FALSE)),
      fallback_response }

ResponseLists == UNION { [1..k -> SampleResponses] : k \in 0..MaxResponses }

\* the selector is given a question and a list of candidates
InitSelect ==
    /\ Fresh
    /\ ref = NoRefinement
    /\ tg = NoGeneration
    /\ sel \in { [done |-> FALSE, query |-> query, responses |-> responses] :
                    query \in SelectQuestions, responses \in ResponseLists }

\* _select_response_dynamically(query, responses)
Select ==
    /\ ~ sel.done
    /\ sel' = [done |-> TRUE, query |-> sel.query, responses |-> sel.responses,
               selected |-> _select_response_dynamically(sel.query, sel.responses)]
    /\ UNCHANGED ragVars
    /\ UNCHANGED memVars
    /\ UNCHANGED <<conversations, clock, performance_metrics, learning_enabled, hash_seed, pq,
                   utilVars>>

NextSelect == Select

SpecSelect == InitSelect /\ [][NextSelect]_vars

----------------------------------------------------------------------------
(* Claims about process_query and the selector *)

TheResultIs42 == <<<<"T","h","e">>, <<"r","e","s","u","l","t">>, <<"i","s">>, <<"4","2">>>>

\* C1: for the query "What is 25 + 17?" the calculator yields the candidate
\* "The result is 42" of source tool, and the selector picks that candidate
\* whatever text the language model returns
C1_CalculatorCandidateWins ==
    (pq.status = "returned" /\ pq.query = q_sum) =>
        /\ \E i \in DOMAIN pq.responses :
               pq.responses[i].source = "tool" /\ pq.responses[i].content = TheResultIs42
        /\ pq.selected.source = "tool"
        /\ pq.selected.content = TheResultIs42

\* C2: process_query never raises because a collaborator failed: it returns its
\* result mapping
C2_NeverRaises == pq.status # "raised"

DirectCandidates(responses) == { i \in DOMAIN responses : responses[i].source = "direct_llm" }

\* C3: the candidate list holds exactly one direct-LLM candidate, of
\* confidence 0.7, and when the language-model client fails the content of that
\* candidate is the canned quota-exhausted message
C3_QuotaMessageOnFailure ==
    pq.status = "returned" =>
        /\ Cardinality(DirectCandidates(pq.responses)) = 1
        /\ \A i \in DirectCandidates(pq.responses) :
               /\ RatEq(pq.responses[i].confidence, Rat(7, 10))
               /\ ~ pq.completion.ok => pq.responses[i].content = _quota_message

\* C4: the candidate the selector returns has a confidence in [0.1, 0.95]; for
\* the empty list it is the fallback candidate of confidence 0.1, for any other
\* list its source is the source of a candidate of the list
C4_ConfidenceAndSource ==
    sel.done =>
        /\ RatLeq(Rat(1, 10), sel.selected.confidence)
        /\ RatLeq(sel.selected.confidence, Rat(95, 100))
        /\ IF sel.responses = <<>>
           THEN sel.selected.source = "fallback" /\ RatEq(sel.selected.confidence, Rat(1, 10))
           ELSE \E i \in DOMAIN sel.responses : sel.responses[i].source = sel.selected.source

\* a list of several candidates whose best score is below the floor of 10
C4_Witness ==
    /\ sel.done
    /\ Len(sel.responses) > 1
    /\ RatLess(RawScore(sel.selected, sel.query), Rat(10, 1))
    /\ RatEq(sel.selected.confidence, Rat(1, 10))

\* C10: a fact of the same user, category and value always gets the same key,
\* in the same process or after a restart, and so is held in one row
C10_SameFactSameKey ==
    \A f, g \in pq.facts :
        (f.user_id = g.user_id /\ f.type = g.type /\ f.value = g.value) =>
            /\ f.key = g.key
            /\ Cardinality({ r \in user_memories :
                               /\ r.user_id = f.user_id
                               /\ r.memory_key \in { f.key, g.key } }) <= 1

----------------------------------------------------------------------------
(* The assistant in one session, turn after turn *)

\* a text of the language model that names a tool
t_tool == <<<<"t","r","y">>, <<"t","h","e">>, <<"w","e","b","_","s","e","a","r","c","h">>, <<"t","o","o","l">>>>

TurnCompletions == { Completion(t_short), Completion(t_long), Completion(t_tool) }

\* what the API may do with the prompt of the refiner: a rewrite, a text too
\* short to be one, a failure
TurnRefinements == { Completion(t_long), Completion(<<<<"o","k">>>>), Failure(<<<<"i","n","s","u","f","f","i","c","i","e","n","t","_","q","u","o","t","a">>>>) }

NextTurn ==
    \/ \E query \in Questions, completion \in TurnCompletions :
           ProcessQuery("u1", "s1", query, completion, TurnRefinements, "none", 1)
    \/ \E enabled \in BOOLEAN : EnableLearning(enabled)

SpecTurn == Init /\ [][NextTurn]_vars

----------------------------------------------------------------------------
(* Claims about the turns of a session *)

\* the query matches no pattern and no keyword of any tool
NoToolMatch(query) ==
    \A i \in DOMAIN list_tools :
        /\ ~ ReMatches(tool_patterns(list_tools[i]).patterns, Flatten(LowerText(query)))
        /\ ~ ContainsAny(Flatten(LowerText(query)), tool_patterns(list_tools[i]).keywords)

\* the last two turns of the history name a tool
NamesTool(history) ==
    \E i \in DOMAIN list_tools :
        Contains(Flatten(LowerText(RecentText(history))), list_tools[i])

\* a turn that returns, made on an empty index with a query that matches no tool
PlainTurn ==
    /\ documents = <<>>
    /\ pq'.n = pq.n + 1
    /\ pq'.status = "returned"
    /\ NoToolMatch(pq'.query)

OnlyDirect ==
    /\ Len(pq'.responses) = 1
    /\ pq'.responses[1].source = "direct_llm"
    /\ pq'.selected.source = "direct_llm"
    /\ pq'.selected.content = pq'.responses[1].content

C12_ToolCandidateNotRefined ==
    (pq.status = "returned" /\ pq.selected.source = "tool") =>
        /\ pq.refinement = NotCalled
        /\ pq.best_response.content = pq.selected.content
        /\ pq.result.response = pq.selected.content
        /\ \E i \in DOMAIN pq.responses :
               /\ pq.responses[i].source = "tool"
               /\ pq.responses[i].content = pq.result.response

\* a tool candidate is selected for a user with a stored fact, and its content
\* is one the refiner would have asked the language model to rewrite
C12_Witness ==
    /\ pq.status = "returned"
    /\ pq.selected.source = "tool"
    /\ DOMAIN pq.user_memories # {}
    /\ AsksRefinement(pq.selected.content, pq.user_memories)
    /\ pq.result.response = pq.selected.content


----------------------------------------------------------------------------
(* the memory refiner on its own *)

t_tiny == <<<<"H","i">>, <<"t","h","e","r","e">>>>

t_failed == <<<<"I">>, <<"w","a","s">>, <<"u","n","a","b","l","e">>, <<"t","o">>, <<"c","o","m","p","l","e","t","e">>, <<"t","h","e">>, <<"t","a","s","k">>, <<"y","o","u">>, <<"g","a","v","e">>, <<"m","e">>>>

OriginalContents == { t_short, t_long, t_tiny, t_failed, _quota_message }

\* what get_user_memories can hand over: nothing, a fact, a fact of 2 characters
RefinerMemories == { <<>>, [name |-> <<<<"a","l","e","x">>>>], [name |-> <<<<"a","l">>>>] }

\* what the API can do with the refinement prompt
RefinerCompletions ==
    { Completion(t_long), Completion(<<<<"o","k">>, <<"t","h","e","n">>>>), Completion(<<>>),
      Completion(_quota_message), Completion(t_failed),
      Failure(<<<<"i","n","s","u","f","f","i","c","i","e","n","t","_","q","u","o","t","a">>>>) }

\* the refiner is given a content, the facts of the user and an API
InitRefine ==
    /\ Fresh
    /\ sel = NoSelection
    /\ tg = NoGeneration
    /\ ref \in { [done |-> FALSE, original_response |-> original_response,
                  user_memories |-> memories, completion |-> completion,
                  raises |-> raises] :
                    original_response \in OriginalContents,
                    memories \in RefinerMemories,
                    completion \in RefinerCompletions,
                    raises \in BOOLEAN }

\* _refine_response_with_memory(original_response, query, user_memories, history);
\* raises: a statement of its try block raises, and the bare except returns the
\* original
Refine ==
    /\ ~ ref.done
    /\ ref' = [ref EXCEPT !.done = TRUE] @@
              [result |-> IF ref.raises THEN ref.original_response
                          ELSE _refine_response_with_memory(ref.original_response,
                                                            ref.user_memories,
                                                            ref.completion)]
    /\ UNCHANGED <<ragVars, memVars, conversations, clock, performance_metrics,
                   learning_enabled, hash_seed, pq, sel, evalVars, routeVars, agentVars>>

NextRefine == Refine

SpecRefine == InitRefine /\ [][NextRefine]_vars

\* the tests a rewrite has to pass to replace the original
ValidRewrite(refined_response) ==
    /\ refined_response # <<>>
    /\ Len(Flatten(refined_response)) > 10
    /\ refined_response # _quota_message
    /\ ~ Contains(Flatten(LowerText(refined_response)), <<"u","n","a","b","l","e"," ","t","o"," ","c","o","m","p","l","e","t","e">>)

\* C13: the refiner returns what the language-model client gave as rewrite only
\* if that text is non-empty, longer than 10 characters, not the canned failure
\* message and free of the failure phrase; with an original under 10
\* characters, an original holding the failure phrase, no fact of more than 2
\* characters, an exception, or a rewrite that fails a test, it returns the
\* original
C13_RewriteOnlyIfValid ==
    ref.done =>
        /\ ref.result # ref.original_response =>
               /\ ref.result = _safe_llm_generate(ref.completion)
               /\ ValidRewrite(ref.result)
        /\ (\/ Len(Flatten(ref.original_response)) < 10
            \/ Contains(Flatten(LowerText(ref.original_response)), <<"u","n","a","b","l","e"," ","t","o"," ","c","o","m","p","l","e","t","e">>)
            \/ \A k \in DOMAIN ref.user_memories : Len(Flatten(ref.user_memories[k])) <= 2
            \/ ref.raises
            \/ ~ ValidRewrite(_safe_llm_generate(ref.completion)))
               => ref.result = ref.original_response

\* the refiner has returned a rewrite in place of the original
C13_Witness ==
    /\ ref.done
    /\ ref.result # ref.original_response
    /\ ref.completion.ok
    /\ ref.result = ref.completion.text
    /\ DOMAIN ref.user_memories # {}


----------------------------------------------------------------------------
(* evaluator_router.py: the response evaluator *)

RECURSIVE Gcd(_, _)
Gcd(a, b) == IF b = 0 THEN a ELSE Gcd(b, a % b)

\* the float n / d, as a fraction in lowest terms
Frac(n, d) == [n |-> n \div Gcd(n, d), d |-> d \div Gcd(n, d)]

Lcm(a, b) == (a \div Gcd(a, b)) * b

RatPlus(a, b) == Frac(a.n * (Lcm(a.d, b.d) \div a.d) + b.n * (Lcm(a.d, b.d) \div b.d), Lcm(a.d, b.d))

RatTimes(a, b) == Frac((a.n \div Gcd(a.n, b.d)) * (b.n \div Gcd(b.n, a.d)), (a.d \div Gcd(b.n, a.d)) * (b.d \div Gcd(a.n, b.d)))

RatAtMost(a, b) == a.n * (Lcm(a.d, b.d) \div a.d) <= b.n * (Lcm(a.d, b.d) \div b.d)

RatMin(a, b) == IF RatAtMost(a, b) THEN a ELSE b

\* set(term.lower() for term in text.split() if len(term) > 3)
EvalTerms(text) == { LowerWord(text[i]) : i \in { j \in DOMAIN text : Len(text[j]) > 3 } }

\* len(overlapping_terms) / len(query_terms), for a query that has terms
term_overlap_score(query, response) ==
    Frac(Cardinality(EvalTerms(query) \cap EvalTerms(response)), Cardinality(EvalTerms(query)))

\* length_score, from the words of the query and of the response
length_score(query, response) ==
    IF Len(query) <= 5
    THEN IF Len(response) < 5 THEN Frac(3, 10)
         ELSE IF Len(response) > 100 THEN Frac(7, 10)
         ELSE Frac(1, 1)
    ELSE IF Len(response) < 10 THEN Frac(2, 10)
         ELSE IF Len(response) > 200 THEN Frac(8, 10)
         ELSE Frac(1, 1)

\* the relevance with the share of the term overlap taken off instead of added
relevance_score_falling(query, response) ==
    IF response = <<>> \/ query = <<>> THEN Frac(0, 1)
    ELSE IF EvalTerms(query) = {} THEN Frac(1, 2)
    ELSE RatPlus(RatTimes(RatPlus(Frac(1, 1), [n |-> 0 - term_overlap_score(query, response).n, d |-> term_overlap_score(query, response).d]), Frac(7, 10)), RatTimes(length_score(query, response), Frac(3, 10)))

\* _calculate_relevance_score
_calculate_relevance_score(query, response) ==
    IF response = <<>> \/ query = <<>> THEN Frac(0, 1)
    ELSE IF EvalTerms(query) = {} THEN Frac(1, 2)
    ELSE RatPlus(RatTimes(term_overlap_score(query, response), Frac(7, 10)),
                 RatTimes(length_score(query, response), Frac(3, 10)))

SentenceEnd == { ".", "!", "?" }

\* len(re.split(r'[.!?]+', response)): one more than the runs of sentence ends
sentence_count(response) ==
    1 + SumTo([i \in DOMAIN response |->
                  Cardinality({ j \in DOMAIN response[i] :
                                  /\ response[i][j] \in SentenceEnd
                                  /\ (j = 1 \/ response[i][j - 1] \notin SentenceEnd) })],
              Len(response))

\* sum(len(sentence.split()) for sentence in sentences): a word the split cuts
\* counts once in every sentence it leaves a piece in
sentence_words(response) ==
    SumTo([i \in DOMAIN response |->
              Cardinality({ j \in DOMAIN response[i] :
                              /\ response[i][j] \notin SentenceEnd
                              /\ (j = 1 \/ response[i][j - 1] \in SentenceEnd) })],
          Len(response))

incompleteness_indicators ==
    { <<"i"," ","d","o","n","'","t"," ","k","n","o","w">>, <<"i","'","m"," ","n","o","t"," ","s","u","r","e">>, <<"i"," ","c","a","n","'","t"," ","a","n","s","w","e","r">>, <<"n","o"," ","i","n","f","o","r","m","a","t","i","o","n">>, <<"d","o","n","'","t"," ","h","a","v","e"," ","e","n","o","u","g","h">> }

\* _calculate_completeness_score
_calculate_completeness_score(response) ==
    IF response = <<>> THEN Frac(0, 1)
    ELSE RatTimes(RatPlus(RatTimes(RatMin(Frac(Len(response), 50), Frac(1, 1)), Frac(6, 10)),
                          RatTimes(RatMin(Frac(sentence_count(response), 3), Frac(1, 1)), Frac(4, 10))),
                  IF ContainsAny(Flatten(LowerText(response)), incompleteness_indicators)
                  THEN Frac(1, 2) ELSE Frac(1, 1))

transition_words ==
    { <<"h","o","w","e","v","e","r">>, <<"t","h","e","r","e","f","o","r","e">>, <<"a","d","d","i","t","i","o","n","a","l","l","y">>, <<"f","u","r","t","h","e","r","m","o","r","e">>, <<"c","o","n","s","e","q","u","e","n","t","l","y">> }

\* sentence_structure_score, from the words and the sentences of the response
sentence_structure_score(words, sentences) ==
    IF 8 * sentences <= words /\ words <= 20 * sentences THEN Frac(1, 1)
    ELSE IF 5 * sentences <= words /\ words <= 25 * sentences THEN Frac(8, 10)
    ELSE Frac(5, 10)

\* _calculate_coherence_score
_calculate_coherence_score(response) ==
    IF response = <<>> THEN Frac(0, 1)
    ELSE LET Score(response_lower) ==
                 RatPlus(RatTimes(sentence_structure_score(sentence_words(response), sentence_count(response)), Frac(7, 10)),
                         RatTimes(RatMin(Frac(Cardinality({ word \in transition_words : Contains(response_lower, word) }), 3), Frac(1, 1)), Frac(3, 10)))
         IN  Score(Flatten(LowerText(response)))

\* _calculate_source_score
_calculate_source_score(source) ==
    CASE source = "tool" -> Frac(9, 10)
      [] source = "rag" -> Frac(8, 10)
      [] source = "react" -> Frac(85, 100)
      [] source = "direct_llm" -> Frac(7, 10)
      [] source = "fallback" -> Frac(3, 10)
      [] source = "error" -> Frac(1, 10)
      [] OTHER -> Frac(5, 10)

\* response.get(key, default)
Get(response, key, default) == IF key \in DOMAIN response THEN response[key] ELSE default

\* _evaluate_single_response
_evaluate_single_response(query, response) ==
    LET Scores(relevance_score, completeness_score, coherence_score, source_score, confidence) ==
            [relevance_score |-> relevance_score,
             completeness_score |-> completeness_score,
             coherence_score |-> coherence_score,
             source_score |-> source_score,
             composite_score |->
                 RatMin(RatTimes(RatPlus(RatPlus(RatTimes(relevance_score, Frac(35, 100)),
                                                 RatTimes(completeness_score, Frac(25, 100))),
                                         RatPlus(RatTimes(coherence_score, Frac(20, 100)),
                                                 RatTimes(source_score, Frac(20, 100)))),
                                 confidence),
                        Frac(1, 1)),
             evaluation_method |-> "multi_criteria"]
        Of(content) ==
            Scores(_calculate_relevance_score(query, content),
                   _calculate_completeness_score(content),
                   _calculate_coherence_score(content),
                   _calculate_source_score(Get(response, "source", "unknown")),
                   Get(response, "confidence", Frac(1, 2)))
    IN  Of(Get(response, "content", <<>>))

\* the answer to an empty list, with a confidence that is not 0.0
no_responses_half ==
    [selected_response |-> [content |-> <<<<"N","o">>, <<"r","e","s","p","o","n","s","e","s">>, <<"w","e","r","e">>, <<"g","e","n","e","r","a","t","e","d",".">>>>,
                            source |-> "error", confidence |-> Frac(1, 2)],
     all_scores |-> <<>>,
     reason |-> "no_responses"]

\* the answer of evaluate_responses to an empty list
no_responses ==
    [selected_response |-> [content |-> <<<<"N","o">>, <<"r","e","s","p","o","n","s","e","s">>, <<"w","e","r","e">>, <<"g","e","n","e","r","a","t","e","d",".">>>>,
                            source |-> "error", confidence |-> Frac(0, 1)],
     all_scores |-> <<>>,
     reason |-> "no_responses"]

\* evaluate_responses: what it returns (the timestamps left out); the reason of
\* a selection is the text "Highest composite score: " before the score
evaluate_responses(query, responses) ==
    IF responses = <<>> THEN no_responses
    ELSE LET Result(scores) ==
                 LET best == scores[CHOOSE i \in DOMAIN scores :
                                        /\ \A j \in DOMAIN scores :
                                               RatAtMost(scores[j].composite_score, scores[i].composite_score)
                                        /\ \A j \in 1..(i - 1) :
                                               ~ RatAtMost(scores[i].composite_score, scores[j].composite_score)]
                 IN  [selected_response |-> best.response,
                      all_scores |-> scores,
                      reason |-> <<"Highest composite score: ", best.composite_score>>]
             ScoreEntry(i, score_data) ==
                 [index |-> i - 1, response |-> responses[i], scores |-> score_data,
                  composite_score |-> score_data.composite_score]
         IN  Result([i \in DOMAIN responses |->
                        ScoreEntry(i, _evaluate_single_response(query, responses[i]))])

MaxEvaluations == 2   \* evaluate_responses calls

e_loops == <<<<"e","x","p","l","a","i","n">>, <<"p","y","t","h","o","n">>, <<"l","o","o","p","s">>>>

e_generics == <<<<"e","x","p","l","a","i","n">>, <<"j","a","v","a">>, <<"g","e","n","e","r","i","c","s">>>>

e_ok == <<<<"i","s">>, <<"i","t">>, <<"o","k">>>>

e_long == <<<<"p","l","e","a","s","e">>, <<"e","x","p","l","a","i","n">>, <<"h","o","w">>, <<"p","y","t","h","o","n">>, <<"l","o","o","p","s">>, <<"w","o","r","k">>, <<"i","n">>, <<"p","r","a","c","t","i","c","e">>>>

EvalQueries == { e_loops, e_generics, e_ok, e_long, <<>> }

r_loops ==
    [content |-> <<<<"P","y","t","h","o","n">>, <<"l","o","o","p","s">>, <<"r","e","p","e","a","t">>, <<"a">>, <<"b","l","o","c","k">>, <<"o","f">>, <<"c","o","d","e",".">>, <<"H","o","w","e","v","e","r">>, <<"t","h","e","y">>, <<"s","t","o","p">>, <<"w","h","e","n">>, <<"t","h","e">>, <<"c","o","n","d","i","t","i","o","n">>, <<"f","a","i","l","s",".">>>>,
     source |-> "direct_llm", confidence |-> Frac(7, 10)]

r_brief == [content |-> <<<<"T","o">>, <<"e","x","p","l","a","i","n">>, <<"p","y","t","h","o","n">>, <<"l","o","o","p","s">>>>, source |-> "rag", confidence |-> Frac(8, 10)]

r_unknown == [content |-> <<<<"I">>, <<"d","o","n","'","t">>, <<"k","n","o","w",".">>>>, source |-> "tool", confidence |-> Frac(9, 10)]

r_bare == [source |-> "plugin"]

EvalLists ==
    { <<>>, <<r_loops>>, <<r_brief>>, <<r_loops, r_brief>>, <<r_unknown, r_bare>> }

\* ResponseEvaluator.evaluate_responses(query, responses)
Evaluate(query, responses) ==
    /\ ev.calls < MaxEvaluations
    /\ \E result \in { evaluate_responses(query, responses) } :
           /\ ev' = [calls |-> ev.calls + 1, query |-> query, responses |-> responses,
                     result |-> result]
           /\ evaluation_history' =
                  IF responses = <<>> THEN evaluation_history
                  ELSE Append(evaluation_history, [query |-> query, evaluation |-> result])
    /\ UNCHANGED <<ragVars, memVars, conversations, clock, performance_metrics,
                   learning_enabled, hash_seed, pq, sel, ref, routeVars, agentVars>>

NextEval == \E query \in EvalQueries, responses \in EvalLists : Evaluate(query, responses)

SpecEval == Init /\ [][NextEval]_vars

\* C14: evaluate_responses called with an empty list returns a selected
\* response of source error and confidence 0.0, an empty list of scores and the
\* reason "no_responses"
C14_EmptyListResult ==
    (ev.calls > 0 /\ ev.responses = <<>>) =>
        /\ ev.result.selected_response.source = "error"
        /\ ev.result.selected_response.confidence.n = 0
        /\ ev.result.all_scores = <<>>
        /\ ev.result.reason = "no_responses"

\* the evaluator has been called with an empty list
C14_Witness ==
    /\ ev.calls > 0
    /\ ev.responses = <<>>
    /\ ev.query # <<>>
    /\ ev.result.selected_response.content = <<<<"N","o">>, <<"r","e","s","p","o","n","s","e","s">>, <<"w","e","r","e">>, <<"g","e","n","e","r","a","t","e","d",".">>>>

\* C15: every call of evaluate_responses, one with an empty list too, appends
\* one entry to the evaluation history: the history is as long as the number
\* of calls made
C15_HistoryCountsCalls == Len(evaluation_history) = ev.calls


\* the term-overlap ratio of a query and a content is defined: neither is
\* empty and the query has a term of more than 3 characters
HasOverlapRatio(query, content) ==
    /\ query # <<>>
    /\ content # <<>>
    /\ EvalTerms(query) # {}

\* two scored responses of the evaluation history that differ in nothing but
\* the term-overlap ratio, the second with a ratio no lower than the first:
\* the same response (content, source, confidence) under two queries of one
\* length score
OverlapRaised(query, scored, other_query, other) ==
    LET Raised(content) ==
            /\ HasOverlapRatio(query, content)
            /\ HasOverlapRatio(other_query, content)
            /\ length_score(query, content) = length_score(other_query, content)
            /\ RatAtMost(term_overlap_score(query, content),
                         term_overlap_score(other_query, content))
    IN  /\ DOMAIN scored.response = DOMAIN other.response
        /\ scored.response = other.response
        /\ Raised(Get(scored.response, "content", <<>>))

\* C16: with completeness, coherence, source score, length score and stated
\* confidence the same, the composite score of a response does not fall when
\* the term-overlap ratio rises; and no composite score exceeds 1.0
C16_CompositeMonotoneInOverlap ==
    \A a \in DOMAIN evaluation_history, b \in DOMAIN evaluation_history :
        \A i \in DOMAIN evaluation_history[a].evaluation.all_scores :
            /\ RatAtMost(evaluation_history[a].evaluation.all_scores[i].composite_score, Frac(1, 1))
            /\ \A j \in DOMAIN evaluation_history[b].evaluation.all_scores :
                   OverlapRaised(evaluation_history[a].query,
                                 evaluation_history[a].evaluation.all_scores[i],
                                 evaluation_history[b].query,
                                 evaluation_history[b].evaluation.all_scores[j])
                       => RatAtMost(evaluation_history[a].evaluation.all_scores[i].composite_score,
                                    evaluation_history[b].evaluation.all_scores[j].composite_score)

\* one response has been scored under two queries of one length score, with a
\* higher term-overlap ratio and a higher composite score under the second
C16_Witness ==
    /\ Len(evaluation_history) = 2
    /\ evaluation_history[1].query = e_generics
    /\ evaluation_history[2].query = e_loops
    /\ OverlapRaised(evaluation_history[1].query, evaluation_history[1].evaluation.all_scores[1],
                     evaluation_history[2].query, evaluation_history[2].evaluation.all_scores[1])
    /\ ~ RatAtMost(term_overlap_score(e_loops, evaluation_history[1].evaluation.all_scores[1].response.content),
                   term_overlap_score(e_generics, evaluation_history[1].evaluation.all_scores[1].response.content))
    /\ ~ RatAtMost(evaluation_history[2].evaluation.all_scores[1].composite_score,
                   evaluation_history[1].evaluation.all_scores[1].composite_score)


\* the results of the last search are documents of the index, each taken once,
\* with the score search gives them, and no document left out scores higher
\* than a returned one
TopOfIndex(result) ==
    \E from \in [DOMAIN result -> DOMAIN documents] :
        /\ \A i \in DOMAIN result, j \in DOMAIN result : from[i] = from[j] => i = j
        /\ \A j \in DOMAIN result :
               /\ DocOf(result[j]) = documents[from[j]]
               /\ result[j].relevance_score = ScoreOf(from[j])
        /\ \A i \in DOMAIN documents :
               (\A j \in DOMAIN result : from[j] # i) =>
                   \A j \in DOMAIN result :
                       RatLeq(ScoreOf(i), result[j].relevance_score)

\* C17: search(q, k) returns at most k documents, in an order of non-increasing
\* relevance score, and every document of the index it leaves out scores no
\* higher than every document it returns
C17_TopKByScore ==
    last.op = "search" =>
        /\ Len(last.result) <= last.k
        /\ \A j \in 1..(Len(last.result) - 1) :
               RatLeq(last.result[j + 1].relevance_score, last.result[j].relevance_score)
        /\ TopOfIndex(last.result)

\* a search has left out a document of a score above 0, and returned a
\* document that stands behind it in the index
C17_Witness ==
    /\ last.op = "search"
    /\ Len(documents) >= 2
    /\ Len(last.result) = last.k
    /\ NumPositive > last.k
    /\ DocOf(last.result[1]) # documents[1]
    /\ ScoreOf(1).n > 0
    /\ RatLess(ScoreOf(1), last.result[1].relevance_score)


----------------------------------------------------------------------------
(* memory_manager.py: the conversation log on its own *)

MaxTurns   == 3    \* store_conversation calls
MaxSeconds == 1    \* seconds the clock advances
MaxLimit   == 2    \* largest limit given to get_recent_conversations

LogSessions == { "s1", "s2" }

LogMessages == { <<<<"f","i","r","s","t">>, <<"q","u","e","s","t","i","o","n">>>>, <<<<"s","e","c","o","n","d">>, <<"q","u","e","s","t","i","o","n">>>> }

\* MemoryManager.store_conversation(user_id, session_id, message, response)
StoreConversation(user_id, session_id, message, response) ==
    /\ Len(conversations) < MaxTurns
    /\ conversations' = store_conversation(conversations, user_id, session_id,
                                           message, response, clock)
    /\ mlast' = [op |-> "store_conversation", user_id |-> user_id,
                 session_id |-> session_id, limit |-> 0, result |-> <<>>]
    /\ UNCHANGED <<user_memories, memory_seq, clock, performance_metrics, learning_enabled,
                   hash_seed, pq, sel, utilVars>>
    /\ UNCHANGED ragVars

\* MemoryManager.get_recent_conversations(user_id, session_id, limit)
GetRecentConversations(user_id, session_id, limit) ==
    /\ \E result \in get_recent_conversations(conversations, user_id, session_id, limit) :
           mlast' = [op |-> "get_recent_conversations", user_id |-> user_id,
                     session_id |-> session_id, limit |-> limit, result |-> result]
    /\ UNCHANGED <<user_memories, memory_seq, conversations, clock, performance_metrics,
                   learning_enabled, hash_seed, pq, sel, utilVars>>
    /\ UNCHANGED ragVars

\* a second passes: CURRENT_TIMESTAMP counts in seconds
Second ==
    /\ clock < MaxSeconds
    /\ clock' = clock + 1
    /\ UNCHANGED <<conversations, performance_metrics, learning_enabled, hash_seed, pq, sel,
                   utilVars>>
    /\ UNCHANGED ragVars
    /\ UNCHANGED memVars

NextLog ==
    \/ \E user_id \in Users, session_id \in LogSessions, message \in LogMessages :
           StoreConversation(user_id, session_id, message, <<<<"a","n">>, <<"a","n","s","w","e","r">>>>)
    \/ \E user_id \in Users, session_id \in LogSessions, limit \in 1..MaxLimit :
           GetRecentConversations(user_id, session_id, limit)
    \/ Second

SpecLog == Init /\ [][NextLog]_vars

\* the turns stored for a user and session, in the order they were stored
TurnsOf(user_id, session_id) ==
    LET Turn(row) == [message |-> row.message, response |-> row.response]
        Mine(row) == row.user_id = user_id /\ row.session_id = session_id
        Turns(rows) == [i \in DOMAIN rows |-> Turn(rows[i])]
    IN  Turns(SelectSeq(conversations, Mine))

\* the last n elements of a sequence
LastOf(seq, n) == SubSeq(seq, Len(seq) - n + 1, Len(seq))

\* C18: get_recent_conversations(user, session, limit) returns the
\* min(limit, n) turns stored last for that user and session, n being the
\* number stored, in the order they were stored, and no turn of another user
\* or session
C18_MostRecentOldestFirst ==
    mlast.op = "get_recent_conversations" =>
        mlast.result = LastOf(TurnsOf(mlast.user_id, mlast.session_id),
                              Min(mlast.limit, Len(TurnsOf(mlast.user_id, mlast.session_id))))


----------------------------------------------------------------------------
(* evaluator_router.py: the router *)

\* tool_keywords of route_query, in the order of the dict
router_tool_keywords ==
    << [tool |-> "weather", keywords |-> { <<"w","e","a","t","h","e","r">>, <<"t","e","m","p","e","r","a","t","u","r","e">>, <<"f","o","r","e","c","a","s","t">> }],
       [tool |-> "calculator", keywords |-> { <<"c","a","l","c","u","l","a","t","e">>, <<"m","a","t","h">>, <<"e","q","u","a","t","i","o","n">>, <<"t","i","m","e","s">>, <<"p","l","u","s">>, <<"m","i","n","u","s">> }],
       [tool |-> "time", keywords |-> { <<"t","i","m","e">>, <<"c","u","r","r","e","n","t"," ","t","i","m","e">>, <<"w","h","a","t"," ","t","i","m","e">>, <<"d","a","t","e">> }],
       [tool |-> "web_search", keywords |-> { <<"s","e","a","r","c","h"," ","f","o","r">>, <<"f","i","n","d"," ","i","n","f","o","r","m","a","t","i","o","n"," ","a","b","o","u","t">>, <<"l","o","o","k"," ","u","p">> }] >>

\* rag_keywords + knowledge_queries
rag_keywords ==
    { <<"w","h","a","t"," ","i","s">>, <<"w","h","o"," ","i","s">>, <<"e","x","p","l","a","i","n">>, <<"t","e","l","l"," ","m","e"," ","a","b","o","u","t">>, <<"d","e","f","i","n","e">>,
      <<"c","a","p","i","t","a","l"," ","o","f">>, <<"f","o","u","n","d","e","r"," ","o","f">>, <<"i","n","v","e","n","t","e","d"," ","b","y">>, <<"l","o","c","a","t","e","d"," ","i","n">> }

\* the tools whose keywords occur in the query: detected_tool is the first
DetectedTools(query_lower) ==
    SelectSeq(router_tool_keywords, LAMBDA entry : ContainsAny(query_lower, entry.keywords))

\* "?" in query and " " in query.split("?")[0]
SpaceBeforeQuestionMark(s) ==
    \E i \in DOMAIN s :
        /\ s[i] = "?"
        /\ \A j \in 1..(i - 1) : s[j] # "?"
        /\ \E j \in 1..(i - 1) : s[j] = " "

\* sum(complexity_indicators): how many of the four hold
complexity_indicators(query) ==
    LET Count(query_lower) ==
            (IF Len(query) > 10 THEN 1 ELSE 0)
          + (IF Contains(query_lower, <<"a","n","d">>) /\ Contains(query_lower, <<"o","r">>) THEN 1 ELSE 0)
          + (IF ContainsAny(query_lower, { <<"c","o","m","p","l","e","x">>, <<"m","u","l","t","i","p","l","e">>, <<"v","a","r","i","o","u","s">> }) THEN 1 ELSE 0)
          + (IF SpaceBeforeQuestionMark(Flatten(query)) THEN 1 ELSE 0)
    IN  Count(Flatten(LowerText(query)))

\* routes: the families that qualify for the query, in the order they are added
Routes(query) ==
    LET ToolRoute(detected) ==
            IF detected # <<>>
            THEN << [route |-> "tool", confidence |-> Frac(8, 10),
                     reason |-> <<"Detected tool: ", detected[1].tool>>] >>
            ELSE <<>>
        RagRoute(query_lower) ==
            IF ContainsAny(query_lower, rag_keywords)
            THEN << [route |-> "rag", confidence |-> Frac(7, 10),
                     reason |-> <<"Knowledge-based query">>] >>
            ELSE <<>>
        ReactRoute(react_confidence) ==
            IF ~ RatAtMost(react_confidence, Frac(5, 10))
            THEN << [route |-> "react", confidence |-> react_confidence,
                     reason |-> <<"Complex query requiring reasoning">>] >>
            ELSE <<>>
    IN  ToolRoute(DetectedTools(Flatten(LowerText(query))))
            \o RagRoute(Flatten(LowerText(query)))
            \o ReactRoute(Frac(complexity_indicators(query), 4))
            \o << [route |-> "direct_llm", confidence |-> Frac(6, 10),
                   reason |-> <<"General query">>] >>

\* the routing decision that takes the route added last
routing_decision_last(query) ==
    LET Decision(routes) ==
            [query |-> query, selected_route |-> routes[Len(routes)].route,
             confidence |-> routes[Len(routes)].confidence,
             reason |-> routes[Len(routes)].reason, all_routes |-> routes]
    IN  Decision(Routes(query))

\* routing_decision: max(routes, key=lambda x: x[1]), the first route of the
\* highest confidence (the timestamp left out)
routing_decision(query) ==
    LET Decision(routes) ==
            LET best_route == routes[CHOOSE i \in DOMAIN routes :
                                         /\ \A j \in DOMAIN routes :
                                                RatAtMost(routes[j].confidence, routes[i].confidence)
                                         /\ \A j \in 1..(i - 1) :
                                                ~ RatAtMost(routes[i].confidence, routes[j].confidence)]
            IN  [query |-> query, selected_route |-> best_route.route,
                 confidence |-> best_route.confidence, reason |-> best_route.reason,
                 all_routes |-> routes]
    IN  Decision(Routes(query))

MaxRoutes == 3    \* route_query calls

RouteQueries ==
    { <<<<"w","h","a","t">>, <<"i","s">>, <<"t","h","e">>, <<"w","e","a","t","h","e","r">>, <<"t","o","d","a","y","?">>>>,
      <<<<"e","x","p","l","a","i","n">>, <<"r","e","c","u","r","s","i","o","n">>>>,
      <<<<"h","e","l","l","o">>, <<"t","h","e","r","e">>>>,
      <<<<"p","l","e","a","s","e">>, <<"c","o","m","p","a","r","e">>, <<"t","h","e">>, <<"m","u","l","t","i","p","l","e">>, <<"o","p","t","i","o","n","s">>, <<"a","n","d">>, <<"o","r","d","e","r">>, <<"t","h","e","m">>, <<"b","y">>, <<"p","r","i","c","e">>, <<"f","o","r">>, <<"m","e">>, <<"n","o","w","?">>>>,
      <<<<"c","a","l","c","u","l","a","t","e">>, <<"t","h","e">>, <<"v","a","r","i","o","u","s">>, <<"s","u","m","s">>, <<"a","n","d">>, <<"s","o","r","t">>, <<"t","h","e","m","?">>>>,
      <<<<"p","l","e","a","s","e">>, <<"c","a","l","c","u","l","a","t","e">>, <<"t","h","e">>, <<"m","u","l","t","i","p","l","e">>, <<"s","u","m","s">>, <<"a","n","d">>, <<"o","r","d","e","r">>, <<"t","h","e","m">>, <<"b","y">>, <<"p","r","i","c","e">>, <<"f","o","r">>, <<"m","e">>, <<"n","o","w","?">>>>,
      <<>> }

\* IntelligentRouter.route_query(query)
RouteQuery(query) ==
    /\ rt.calls < MaxRoutes
    /\ \E decision \in { routing_decision(query) } :
           /\ routing_history' = Append(routing_history, decision)
           /\ rt' = [calls |-> rt.calls + 1, query |-> query, route |-> decision.selected_route]
    /\ UNCHANGED <<ragVars, memVars, conversations, clock, performance_metrics,
                   learning_enabled, hash_seed, pq, sel, ref, evalVars, agentVars>>

NextRoute == \E query \in RouteQueries : RouteQuery(query)

SpecRoute == Init /\ [][NextRoute]_vars

\* the families that qualify for a query, each with its confidence: tool on a
\* keyword, rag on a knowledge phrasing, react at the quarter of its indicators
\* that hold when that is above 0.5, direct_llm always
Qualified(query) ==
    LET Families(query_lower, indicators) ==
            { f \in { [route |-> "tool", confidence |-> Frac(8, 10)],
                      [route |-> "rag", confidence |-> Frac(7, 10)],
                      [route |-> "react", confidence |-> Frac(indicators, 4)],
                      [route |-> "direct_llm", confidence |-> Frac(6, 10)] } :
                \/ f.route = "tool"
                       /\ \E i \in DOMAIN router_tool_keywords :
                              ContainsAny(query_lower, router_tool_keywords[i].keywords)
                \/ f.route = "rag" /\ ContainsAny(query_lower, rag_keywords)
                \/ f.route = "react" /\ 2 * indicators > 4
                \/ f.route = "direct_llm" }
    IN  Families(Flatten(LowerText(query)), complexity_indicators(query))

\* C19: route_query returns the family of the highest confidence among those
\* that qualify for the query, and so direct_llm exactly when no other family
\* qualifies
C19_HighestQualifiedFamily ==
    rt.calls > 0 =>
        /\ \E f \in Qualified(rt.query) :
               /\ f.route = rt.route
               /\ \A g \in Qualified(rt.query) : RatAtMost(g.confidence, f.confidence)
        /\ rt.route = "direct_llm" <=> Cardinality(Qualified(rt.query)) = 1
        /\ Len(routing_history) = rt.calls
        /\ routing_history[rt.calls].selected_route = rt.route

\* the router has preferred react to tool for a query of four indicators, and
\* tool to react for one of three
C19_Witness ==
    /\ rt.calls = 2
    /\ routing_history[1].selected_route = "react"
    /\ Cardinality(Qualified(routing_history[1].query)) = 3
    /\ routing_history[2].selected_route = "tool"
    /\ Cardinality(Qualified(routing_history[2].query)) = 3


\* a process_query call has returned in this step
TurnReturned == pq'.n = pq.n + 1 /\ pq'.status = "returned"

\* the step has fed the query, the final content and the source of the turn
\* to the learning write-back of the index, and counted a learning opportunity
LearnedFromTurn ==
    LET WrittenBack(index) ==
            /\ documents' = index.documents
            /\ learned_queries' = index.learned_queries
    IN  /\ performance_metrics'.learning_opportunities
               = performance_metrics.learning_opportunities + 1
        /\ WrittenBack(learn_from_interaction(documents, learned_queries, pq'.query,
                                              pq'.result.response, pq'.result.source, today))

\* C20: process_query feeds (query, final content, source) to the learning
\* write-back of the index and counts a learning opportunity if and only if
\* learning is enabled and the confidence of the selected candidate is above
\* 0.7; otherwise the index and the counter stay as they were
C20_LearnsIffEnabledAndConfident ==
    [][TurnReturned =>
          IF learning_enabled /\ RatLess(Rat(7, 10), pq'.selected.confidence)
          THEN LearnedFromTurn
          ELSE /\ performance_metrics'.learning_opportunities
                      = performance_metrics.learning_opportunities
               /\ UNCHANGED <<documents, learned_queries>>]_vars

\* a turn of a confidence above 0.7 has been learned from and stored in the
\* index; learning has then been disabled, and a second turn of a confidence
\* above 0.7 has left the index and the counter alone
C20_Witness ==
    /\ pq.n = 2
    /\ pq.status = "returned"
    /\ ~ learning_enabled
    /\ RatLess(Rat(7, 10), pq.selected.confidence)
    /\ performance_metrics.learning_opportunities = 1
    /\ Len(documents) = 1
    /\ DOMAIN learned_queries # {}


----------------------------------------------------------------------------
(* Claims about the learning write-back *)

\* the terms of a text, as a set
TermSet(text) == { _extract_terms(text)[i] : i \in DOMAIN _extract_terms(text) }

\* the association mapping after the step holds, for every term of the query,
\* every term of the response, behind the associations the term had; the
\* other terms keep theirs
Folded(query, response) ==
    /\ DOMAIN learned_queries' = DOMAIN learned_queries \cup TermSet(query)
    /\ \A t \in DOMAIN learned_queries \ TermSet(query) :
           learned_queries'[t] = learned_queries[t]
    /\ \A t \in TermSet(query) :
           /\ TermSet(response) \subseteq
                  { learned_queries'[t][i] : i \in DOMAIN learned_queries'[t] }
           /\ t \in DOMAIN learned_queries =>
                  SubSeq(learned_queries'[t], 1, Len(learned_queries[t])) = learned_queries[t]

\* C21: learn_from_interaction(q, r, s) appends one document, of content
\* "Question: q / Answer: r", confidence 0.7 and a learned date, and folds the
\* terms of q and r into the association mapping, if and only if r has more
\* than 10 words; for 10 words or fewer the documents and the mapping stay as
\* they were
C21_LearnsIffMoreThanTenWords ==
    [][last'.op = "learn" =>
          IF WordCount(last'.r) > 10
          THEN /\ Len(documents') = Len(documents) + 1
               /\ SubSeq(documents', 1, Len(documents)) = documents
               /\ documents'[Len(documents')].content = LearnedContent(last'.q, last'.r)
               /\ documents'[Len(documents')].confidence = 7
               /\ documents'[Len(documents')].learned_date = today
               /\ Folded(last'.q, last'.r)
          ELSE UNCHANGED <<documents, learned_queries>>]_vars

\* a response of 11 words has been learned from, into an index that held a
\* document before
C21_Witness ==
    /\ last.op = "learn"
    /\ WordCount(last.r) = 11
    /\ Len(documents) = 2
    /\ documents[2].content = LearnedContent(last.q, last.r)
    /\ "learned_date" \in DOMAIN documents[2]
    /\ TermSet(last.q) # {}
    /\ TermSet(last.q) \subseteq DOMAIN learned_queries


----------------------------------------------------------------------------
(* Claims about a turn of process_query *)

RECURSIVE SumOver(_, _)
SumOver(counts, keys) ==
    IF keys = {} THEN 0
    ELSE LET k == CHOOSE x \in keys : TRUE
         IN  counts[k] + SumOver(counts, keys \ {k})

\* the usage count of a source, 0 for a source not used yet
UsedCount(metrics, source) ==
    IF source \in DOMAIN metrics.sources_used THEN metrics.sources_used[source] ELSE 0

\* the step counts one query, one use of the source returned, and one use of
\* memory exactly when the history or the facts of the turn were not empty
TurnCounted ==
    /\ performance_metrics'.total_queries = performance_metrics.total_queries + 1
    /\ DOMAIN performance_metrics'.sources_used
           = DOMAIN performance_metrics.sources_used \cup { pq'.result.source }
    /\ \A source \in DOMAIN performance_metrics'.sources_used :
           UsedCount(performance_metrics', source)
               = UsedCount(performance_metrics, source)
                     + (IF source = pq'.result.source THEN 1 ELSE 0)
    /\ performance_metrics'.memory_usage_count
           = performance_metrics.memory_usage_count
                 + (IF pq'.history # <<>> \/ DOMAIN pq'.user_memories # {} THEN 1 ELSE 0)

\* C22: a completed process_query call adds 1 to the total-query counter and 1
\* to the usage counter of the source it returns, and 1 to the memory-usage
\* counter exactly when the history or the facts loaded for the turn were not
\* empty; after any sequence of completed calls the usage counts of the sources
\* sum to the total-query counter
C22_CountersPerTurn ==
    /\ [](SumOver(performance_metrics.sources_used, DOMAIN performance_metrics.sources_used)
              = performance_metrics.total_queries)
    /\ [][TurnReturned => TurnCounted]_vars

\* two turns have completed, the first with facts and no history, and two
\* sources have been used
C22_Witness ==
    /\ pq.n = 2
    /\ pq.status = "returned"
    /\ performance_metrics.total_queries = 2
    /\ performance_metrics.memory_usage_count = 2
    /\ Cardinality(DOMAIN performance_metrics.sources_used) = 2
    /\ pq.history # <<>>
    /\ DOMAIN pq.user_memories # {}


\* the step has appended one turn to the conversation log: that of the user
\* and session of the call, with the query as message and the response
\* returned to the caller as response
TurnLogged ==
    /\ Len(conversations') = Len(conversations) + 1
    /\ SubSeq(conversations', 1, Len(conversations)) = conversations
    /\ conversations'[Len(conversations')].user_id = pq'.user_id
    /\ conversations'[Len(conversations')].session_id = pq'.result.session_id
    /\ conversations'[Len(conversations')].message = pq'.query
    /\ conversations'[Len(conversations')].response = pq'.result.response

\* C23: a completed process_query call appends one turn to the conversation
\* log of its user and session, whose message is the query and whose response
\* is the response returned to the caller, the content after refinement; no
\* turn stored before is changed or removed
C23_OneTurnAppended == [][TurnReturned => TurnLogged]_vars

\* a second turn has been stored behind the first, with a response the refiner
\* has rewritten
C23_Witness ==
    /\ pq.n = 2
    /\ pq.status = "returned"
    /\ Len(conversations) = 2
    /\ conversations[1].session_id = conversations[2].session_id
    /\ pq.refinement # NotCalled
    /\ pq.result.response # pq.selected.content
    /\ conversations[2].response = pq.result.response


\* the facts the turn used hold the fact extracted from its query, and are the
\* ones counted in user_memories_count
FactRead(turn) ==
    /\ turn.memory_data.is_memory =>
           /\ turn.memory_data.key \in DOMAIN turn.user_memories
           /\ turn.user_memories[turn.memory_data.key] = turn.memory_data.value
    /\ turn.result.user_memories_count = Cardinality(DOMAIN turn.user_memories)

\* the history the turn used is made of the turns the log held for the user
\* and session before the call: the window of the last max_conversation_history
HistoryFromBefore(turn) ==
    turn.history = LastOf(TurnsOf(turn.user_id, turn.result.session_id),
                          Min(max_conversation_history,
                              Len(TurnsOf(turn.user_id, turn.result.session_id))))

\* C24: in one process_query call the extracted fact is written before the
\* facts and the history are read, and the turn is stored after them: the
\* facts used for a query, and user_memories_count, include the fact extracted
\* from that query, and the history used is that of the log before the call,
\* without the current turn
C24_FactBeforeReadTurnAfter ==
    [][TurnReturned => (FactRead(pq') /\ HistoryFromBefore(pq'))]_vars

\* a second turn, whose query holds the first fact of the user, has used that
\* fact and a history of the first turn alone
C24_Witness ==
    /\ pq.n = 2
    /\ pq.status = "returned"
    /\ pq.memory_data.is_memory
    /\ Len(pq.history) = 1
    /\ pq.history[1].message # pq.query
    /\ pq.result.user_memories_count = 1
    /\ Len(conversations) = 2


----------------------------------------------------------------------------
(* the tool generator on its own *)

ToolQueries ==
    { q_sum, q_name,
      <<<<"w","e","a","t","h","e","r">>, <<"i","n">>, <<"P","a","r","i","s">>, <<"t","o","d","a","y","?">>>>,
      <<<<"w","h","a","t">>, <<"i","s">>, <<"t","h","e">>, <<"w","e","a","t","h","e","r">>>>,
      <<<<"1","0">>, <<"/">>, <<"0">>>>,
      <<<<"l","o","o","k">>, <<"u","p">>, <<"c","a","t","s">>>>,
      <<<<"w","h","a","t">>, <<"t","i","m","e">>, <<"i","s">>, <<"i","t">>>>,
      <<<<"w","e","a","t","h","e","r">>, <<"i","n">>, <<"P","a","r","i","s">>, <<"t","i","m","e">>, <<"3">>, <<"+">>, <<"4">>>>,
      <<<<"c","a","l","c","u","l","a","t","e">>, <<"i","t">>>>,
      <<<<"s","e","a","r","c","h">>>> }

ToolHistories ==
    { <<>>, << [message |-> q_name, response |-> t_tool] >> }

\* the tools that raise when executed
RaisingTools == { {}, { n_calculator }, { n_get_weather, n_get_time } }

\* the tool generator is given a query, a history and tools that may raise
InitTools ==
    /\ Fresh
    /\ sel = NoSelection
    /\ ref = NoRefinement
    /\ \E query \in ToolQueries, history \in ToolHistories, failing \in RaisingTools :
           tg = [done |-> FALSE, query |-> query, history |-> history, failing |-> failing]

\* _generate_tool_responses(query, history)
GenerateToolResponses ==
    /\ ~ tg.done
    /\ tg' = [tg EXCEPT !.done = TRUE] @@
             [result |-> _generate_tool_responses(tg.query, tg.history, today, tg.failing)]
    /\ UNCHANGED <<ragVars, memVars, conversations, clock, performance_metrics,
                   learning_enabled, hash_seed, pq, sel, ref, evalVars, routeVars, ra>>

NextTools == GenerateToolResponses

SpecTools == InitTools /\ [][NextTools]_vars

\* what the execution of a tool gives for the query of the last call
Executed(tool_name) ==
    _safe_tool_execute(tool_name, _extract_tool_params(tg.query, tool_name, tg.history),
                       today, tool_name \in tg.failing)

\* the registered tools judged relevant for the query of the last call
RelevantTools ==
    SelectSeq(list_tools,
              LAMBDA tool_name :
                  _is_tool_relevant(Flatten(LowerText(tg.query)), tool_name, tg.history))

\* those of them whose execution gives a result without an error
AnsweringTools == SelectSeq(RelevantTools, LAMBDA tool_name : "error" \notin DOMAIN Executed(tool_name))

\* C25: the tool generator returns one candidate for each registered tool that
\* is judged relevant and whose execution gives a result without an error, in
\* the order of registration; a tool that raises or returns an error gives no
\* candidate, and no candidate carries an error
C25_OneCandidatePerAnsweringTool ==
    tg.done =>
        /\ Len(tg.result) = Len(AnsweringTools)
        /\ \A i \in DOMAIN tg.result :
               /\ tg.result[i].tool_name = AnsweringTools[i]
               /\ tg.result[i].source = "tool"
               /\ tg.result[i].tool_data = Executed(AnsweringTools[i])
               /\ "error" \notin DOMAIN tg.result[i].tool_data
               /\ ~ Contains(Flatten(tg.result[i].content), <<"S","o","r","r","y",","," ","I"," ","c","o","u","l","d","n","'","t"," ","p","r","o","c","e","s","s"," ","y","o","u","r"," ","r","e","q","u","e","s","t">>)

\* three tools were relevant, one of them raised, and the two others gave
\* their candidates in the order of registration
C25_Witness ==
    /\ tg.done
    /\ Len(RelevantTools) = 3
    /\ tg.failing = { n_calculator }
    /\ Len(tg.result) = 2
    /\ tg.result[1].tool_name = n_get_weather
    /\ tg.result[2].tool_name = n_get_time


\* a candidate without its confidence
Unrated(response) == [f \in (DOMAIN response) \ {"confidence"} |-> response[f]]

\* candidate i of the last call of the selector has the highest score, no
\* candidate before it has that score, and it is the one returned, with the
\* confidence min(score / 100, 0.95)
SelectedIs(i) ==
    LET Chosen(score) ==
            /\ \A j \in DOMAIN sel.responses :
                   RatLeq(_calculate_response_score(sel.responses[j], sel.query), score)
            /\ \A j \in 1..(i - 1) :
                   RatLess(_calculate_response_score(sel.responses[j], sel.query), score)
            /\ RatEq(sel.selected.confidence,
                     IF RatLess(Rat(95, 1), score) THEN Rat(95, 100)
                     ELSE Rat(score.n, score.d * 100))
    IN  /\ Unrated(sel.selected) = Unrated(sel.responses[i])
        /\ Chosen(_calculate_response_score(sel.responses[i], sel.query))

\* C26: for a list that is not empty the selector returns a candidate of the
\* highest score, the earliest of the list among those of that score, and sets
\* its confidence to min(score / 100, 0.95)
C26_FirstOfHighestScore ==
    (sel.done /\ sel.responses # <<>>) => \E i \in DOMAIN sel.responses : SelectedIs(i)

\* two different candidates of the list have the highest score, and the first
\* of them is the one returned
C26_Witness ==
    /\ sel.done
    /\ Len(sel.responses) = 3
    /\ SelectedIs(2)
    /\ RatEq(_calculate_response_score(sel.responses[2], sel.query),
             _calculate_response_score(sel.responses[3], sel.query))
    /\ sel.responses[2].content # sel.responses[3].content
    /\ sel.selected.content = sel.responses[2].content


----------------------------------------------------------------------------
(* the assistant answering with the canned failure message *)

q_quota == <<<<"r","e","q","u","e","s","t">>, <<"q","u","o","t","a">>>>

QuotaQuestions == { q_name, q_quota }

QuotaCompletions == { Completion(_quota_message), Completion(t_long) }

\* turns of one session whose language model answers with the text of the
\* canned message, over an index that may hold that text
NextQuota ==
    \/ \E query \in QuotaQuestions, completion \in QuotaCompletions :
           ProcessQuery("u1", "s1", query, completion, TurnRefinements, "none", 1)
    \/ AddKnowledge(_quota_message, "user_input")
    \/ Tick

SpecQuota == Init /\ [][NextQuota]_vars

\* C27: whenever the response process_query returns is the canned
\* quota-exhausted message, its confidence is at most 0.7, whatever the query:
\* the message is not written to the index and not counted as a learning
\* opportunity
C27_QuotaMessageNotLearned ==
    [][(TurnReturned /\ pq'.result.response = _quota_message) =>
          /\ RatLeq(pq'.result.confidence, Rat(7, 10))
          /\ UNCHANGED <<documents, learned_queries>>
          /\ performance_metrics'.learning_opportunities
                 = performance_metrics.learning_opportunities]_vars

\* the canned message has been returned, with learning enabled, for a query
\* all of whose terms it holds
C27_Witness ==
    /\ pq.status = "returned"
    /\ pq.result.response = _quota_message
    /\ pq.query = q_quota
    /\ learning_enabled
    /\ LongTerms(pq.query) \subseteq LongTerms(_quota_message)
    /\ RatLess(Rat(6, 10), pq.result.confidence)
    /\ ~ pq.learns


----------------------------------------------------------------------------
(* Claims about what the refiner leaves of the selected candidate *)

\* the returned turn whose content the refiner replaced by a rewrite
ContentRewritten(turn) == turn.best_response.content # turn.selected.content

\* C28: memory refinement changes only the content of the selected candidate:
\* the source and the confidence process_query returns are those the selector
\* gave the candidate, whether or not the content was replaced by a rewrite of
\* the language model
C28_RefinementKeepsSourceAndConfidence ==
    pq.status = "returned" =>
        /\ pq.result.source = pq.selected.source
        /\ pq.result.confidence = pq.selected.confidence
        /\ pq.result.response = pq.best_response.content
        /\ pq.best_response = [pq.selected EXCEPT !.content = pq.best_response.content]

\* a turn returned the rewrite of the language model in place of the content of
\* the selected candidate, with the source and confidence of that candidate
C28_Witness ==
    /\ pq.status = "returned"
    /\ pq.refinement # NotCalled
    /\ ContentRewritten(pq)
    /\ pq.result.response # pq.selected.content
    /\ pq.result.source = pq.selected.source
    /\ pq.result.confidence = pq.selected.confidence


----------------------------------------------------------------------------
(* The counters of one assistant, with calls that return and calls that raise *)

NextCount ==
    \/ \E query \in Questions, completion \in TurnCompletions, fault \in Faults \cup { "none" } :
           ProcessQuery("u1", "s1", query, completion, TurnRefinements, fault, 1)
    \/ \E enabled \in BOOLEAN : EnableLearning(enabled)

SpecCount == Init /\ [][NextCount]_vars

\* the documents the learning write-back has added: the index is empty when the
\* assistant is constructed and nothing else writes to it
LearnedDocuments == Len(documents)

\* C29: after any sequence of process_query calls on one assistant, the number of
\* documents the learning write-back has added to the index is at most
\* learning_opportunities, which is at most total_queries, and memory_usage_count
\* is at most total_queries
C29_CountersOrdered ==
    /\ LearnedDocuments <= performance_metrics.learning_opportunities
    /\ performance_metrics.learning_opportunities <= performance_metrics.total_queries
    /\ performance_metrics.memory_usage_count <= performance_metrics.total_queries
    /\ performance_metrics.total_queries = pq.n

\* after two calls one document has been learned, a second learning opportunity
\* has left no document, and one of the calls has used no memory
C29_Witness ==
    /\ pq.n = 2
    /\ 0 < LearnedDocuments
    /\ LearnedDocuments < performance_metrics.learning_opportunities
    /\ performance_metrics.learning_opportunities <= performance_metrics.total_queries
    /\ performance_metrics.memory_usage_count < performance_metrics.total_queries

----------------------------------------------------------------------------
(* react_agent.py: ReActAgent *)

\* \s, for the replies of the language model
BlankSet == SpaceSet \cup { "\n", "\t" }

\* r'Action:\s*(\w+)' under re.IGNORECASE, on the case-folded reply
ActionPattern ==
    << Lit(<<"a","c","t","i","o","n",":">>) \o << Item(BlankSet, 0, Many, 0), Item(WordSet, 1, Many, 1) >> >>

\* a dict with no key
EmptyDict == [key \in {} |-> <<>>]

\* a reply of the language model: its text, and under action_input what line 148
\* to 166 make of its Action Input section (dict: json.loads gave a dict); the
\* key is absent when the section is absent, empty or null
Reply(content) == [content |-> content]

ReplyWithInput(content, dict, value) ==
    [content |-> content, action_input |-> [dict |-> dict, value |-> value]]

\* _parse_react_response: the keys action and action_input of the parsed dict
_parse_react_response(response) ==
    LET lowered == LowerWord(response.content)
        Action(action_match) ==
            IF action_match.ok
            THEN [action |-> Group(ActionPattern, lowered, action_match, 1)]
            ELSE EmptyDict
        action_input == IF "action_input" \in DOMAIN response
                        THEN [action_input |-> response.action_input]
                        ELSE EmptyDict
    IN  Action(ReSearch(ActionPattern, lowered)) @@ action_input

\* _execute_tool_action: an action_input that is no dict is passed as
\* {"input": action_input}
_execute_tool_action(thought, now) ==
    LET action_input == IF "action_input" \in DOMAIN thought
                        THEN (IF thought.action_input.dict
                              THEN thought.action_input.value
                              ELSE [input |-> thought.action_input.value])
                        ELSE EmptyDict
    IN  execute_tool(thought.action, action_input, now, FALSE)

\* _is_final_answer
_is_final_answer(tool_result, original_query) ==
    IF "error" \in DOMAIN tool_result THEN FALSE
    ELSE ContainsAny(Flatten(LowerText(original_query)), { n_calculator, n_get_time })

\* ReActAgent._format_tool_response: the literal of the f-string and the values
\* it formats
react_format_tool_response(tool_result) ==
    IF "error" \in DOMAIN tool_result THEN << "Tool error: ", tool_result.error >>
    ELSE IF "result" \in DOMAIN tool_result THEN << "The result is: ", tool_result.result >>
    ELSE IF "current_time" \in DOMAIN tool_result
    THEN << "The current time is: ", tool_result.current_time >>
    ELSE IF "temperature" \in DOMAIN tool_result
    THEN << "Weather in ", tool_result.location, tool_result.temperature,
            tool_result.conditions >>
    ELSE << tool_result >>

\* the largest max_steps think is called with
MaxSteps == 3

q_calculator == <<<<"u","s","e">>, <<"t","h","e">>, <<"c","a","l","c","u","l","a","t","o","r">>>>

q_get_time == <<<<"r","u","n">>, <<"g","e","t","_","t","i","m","e">>, <<"n","o","w">>>>

ThinkQueries == { q_sum, q_calculator, q_get_time }

a_respond  == ReplyWithInput(<<"T","h","o","u","g","h","t",":"," ","d","o","n","e"," ","A","c","t","i","o","n",":"," ","R","e","s","p","o","n","d"," ","A","c","t","i","o","n"," ","I","n","p","u","t",":"," ","f","o","r","t","y","-","t","w","o">>, FALSE, <<"f","o","r","t","y","-","t","w","o">>)
a_bare     == Reply(<<"A","c","t","i","o","n",":"," ","r","e","s","p","o","n","d">>)
a_tool     == ReplyWithInput(<<"A","c","t","i","o","n",":"," ","c","a","l","c","u","l","a","t","o","r"," ","A","c","t","i","o","n"," ","I","n","p","u","t",":"," ","{","\"","e","x","p","r","e","s","s","i","o","n","\"",":"," ","\"","1"," ","+"," ","1","\"","}">>, TRUE, [expression |-> <<"1"," ","+"," ","1">>])
a_time     == Reply(<<"A","c","t","i","o","n",":"," ","g","e","t","_","t","i","m","e">>)
a_unknown  == Reply(<<"A","c","t","i","o","n",":"," ","l","o","o","k","u","p">>)
a_noaction == ReplyWithInput(<<"T","h","e"," ","a","n","s","w","e","r"," ","i","s"," ","n","e","a","r","."," ","A","c","t","i","o","n"," ","I","n","p","u","t",":"," ","u","n","k","n","o","w","n">>, FALSE, <<"u","n","k","n","o","w","n">>)

\* what llm.chat_completion may return in a step of the loop
Replies == { a_respond, a_bare, a_tool, a_time, a_unknown, a_noaction }

\* what llm.generate and the last llm.chat_completion return
t_final == <<<<"T","h","e">>, <<"a","n","s","w","e","r">>, <<"i","s">>, <<"4","2">>>>

\* think(query, context, max_steps) up to the loop: the trace is emptied and the
\* messages are the system prompt and the query
Think ==
    /\ ra = NoThought \/ ra.done
    /\ \E query \in ThinkQueries, max_steps \in 0 .. MaxSteps :
           ra' = [done |-> FALSE, query |-> query, max_steps |-> max_steps, step |-> 0,
                  thought_trace |-> <<>>, messages |-> 2]
    /\ UNCHANGED <<ragVars, memVars, conversations, clock, performance_metrics,
                   learning_enabled, hash_seed, pq, sel, ref, evalVars, routeVars, tg>>

\* the return value of think
Returned(type, content, thought_trace, steps_taken) ==
    [type |-> type, content |-> content, thought_trace |-> thought_trace,
     steps_taken |-> steps_taken]

\* one pass of `for step in range(max_steps)`: the reply is parsed and recorded,
\* then think returns the answer of a respond action, runs the tool of another
\* action and returns its result when that is final, or leaves the loop when the
\* reply names no action and returns what follows the loop
ThinkStep ==
    /\ ra # NoThought
    /\ ~ ra.done
    /\ ra.step < ra.max_steps
    /\ \E llm_response \in Replies :
       LET thought == _parse_react_response(llm_response) @@ [step |-> ra.step]
           thought_trace == Append(ra.thought_trace, thought)
           action == IF "action" \in DOMAIN thought THEN thought.action ELSE <<>>
           Observed(tool_result) ==
               LET observed == [thought_trace EXCEPT ![Len(thought_trace)] =
                                    [observation |-> tool_result] @@ thought]
               IN  IF _is_final_answer(tool_result, ra.query)
                   THEN [ra EXCEPT !.done = TRUE, !.thought_trace = observed,
                                   !.messages = @ + 1] @@
                        [result |-> Returned("tool_response",
                                             react_format_tool_response(tool_result),
                                             observed, ra.step + 1)]
                   ELSE [ra EXCEPT !.step = @ + 1, !.thought_trace = observed,
                                   !.messages = @ + 1]
       IN  ra' = IF action = <<"r","e","s","p","o","n","d">>
                 THEN [ra EXCEPT !.done = TRUE, !.thought_trace = thought_trace] @@
                      [result |-> Returned("response",
                                           IF "action_input" \in DOMAIN thought
                                           THEN thought.action_input.value ELSE t_final,
                                           thought_trace, ra.step + 1)]
                 ELSE IF action # <<>>
                 THEN Observed(_execute_tool_action(thought, today))
                 ELSE [ra EXCEPT !.done = TRUE, !.thought_trace = thought_trace] @@
                      [result |-> Returned("final_response", t_final, thought_trace,
                                           ra.max_steps)]
    /\ UNCHANGED <<ragVars, memVars, conversations, clock, performance_metrics,
                   learning_enabled, hash_seed, pq, sel, ref, evalVars, routeVars, tg>>

\* the loop has made its max_steps passes: the final response after max steps
ThinkExhausted ==
    /\ ra # NoThought
    /\ ~ ra.done
    /\ ra.step >= ra.max_steps
    /\ ra' = [ra EXCEPT !.done = TRUE] @@
             [result |-> Returned("final_response", t_final, ra.thought_trace, ra.max_steps)]
    /\ UNCHANGED <<ragVars, memVars, conversations, clock, performance_metrics,
                   learning_enabled, hash_seed, pq, sel, ref, evalVars, routeVars, tg>>

NextThink ==
    \/ Think
    \/ ThinkStep
    \/ ThinkExhausted

SpecThink == Init /\ [][NextThink]_vars

\* think has returned
ThinkReturned == ra # NoThought /\ ra.done

\* C30: think returns after at most max_steps passes of its loop, and the
\* steps_taken it reports is the number of thoughts recorded in thought_trace
\* for the call, on every exit path (respond action, final tool answer, no valid
\* action, steps exhausted)
C30_StepsTakenCountsThoughts ==
    ThinkReturned =>
        /\ Len(ra.result.thought_trace) <= ra.max_steps
        /\ ra.result.steps_taken = Len(ra.result.thought_trace)

====
